---- MODULE Spec2Model ----
(***************************************************************************)
(* Model of fix-dpr (tuncb/fix-dpr): the lexical scanner (pas_lex.rs), the *)
(* include resolver (uses_include.rs), the .dpr uses-list parser and       *)
(* editor and the dependency resolver (dpr_edit.rs).                       *)
(*                                                                         *)
(* A byte buffer is a sequence of one-character strings.  Offsets are the  *)
(* 0-based offsets of the Rust code; At(b, i) reads b[i].  An Option is a  *)
(* sequence of length 0 (None) or 1 (Some).  A path is a sequence of       *)
(* components, each component a sequence of characters.                    *)
(***************************************************************************)
EXTENDS Integers, Sequences, FiniteSets, TLC

VARIABLES
    files,        \* text files on disk (.dpr, .inc, .tmp): path -> bytes
    disk,         \* unit files on disk: path -> [name, uses] (what load_unit_file reads)
    unit_cache,   \* UnitCache of the project
    delphi_unit_cache, \* Option<UnitCache>: the fallback cache
    args,         \* the arguments of the running operation
    pc,           \* position of the running operation
    loc,          \* the locals of the running operation
    summary,      \* DprUpdateSummary being built
    hist          \* history of the run (insertions made, earlier summaries)

vars == <<files, disk, unit_cache, delphi_unit_cache, args, pc, loc, summary, hist>>

(***************************************************************************)
(* Options and small helpers                                               *)
(***************************************************************************)
None == <<>>
Some(x) == <<x>>
IsSome(o) == Len(o) = 1
IsNone(o) == Len(o) = 0
Unwrap(o) == o[1]

\* "let x = v" of the code: F applied to the value v, computed once
Bind(v, F(_)) == F(v)

At(b, i) == b[i + 1]
\* bytes[from..to] of Rust: offsets from (inclusive) to to (exclusive)
Slice(b, from, to) == SubSeq(b, from + 1, to)

Range(s) == {s[k] : k \in 1..Len(s)}

RECURSIVE Flatten(_)
Flatten(ss) == IF ss = <<>> THEN <<>> ELSE Head(ss) \o Flatten(Tail(ss))

(***************************************************************************)
(* Characters                                                              *)
(***************************************************************************)
UpperSeq == <<"A","B","C","D","E","F","G","H","I","J","K","L","M",
              "N","O","P","Q","R","S","T","U","V","W","X","Y","Z">>
LowerSeq == <<"a","b","c","d","e","f","g","h","i","j","k","l","m",
              "n","o","p","q","r","s","t","u","v","w","x","y","z">>
Upper == Range(UpperSeq)
Lower == Range(LowerSeq)
Digit == {"0","1","2","3","4","5","6","7","8","9"}

LowerOf == [c \in Upper |-> LowerSeq[CHOOSE k \in 1..26 : UpperSeq[k] = c]]

\* u8::to_ascii_lowercase
to_ascii_lowercase_byte(c) == IF c \in Upper THEN LowerOf[c] ELSE c

\* str::to_ascii_lowercase
to_ascii_lowercase(s) == [k \in 1..Len(s) |-> to_ascii_lowercase_byte(s[k])]

\* str::eq_ignore_ascii_case
eq_ignore_ascii_case(a, b) == to_ascii_lowercase(a) = to_ascii_lowercase(b)

\* u8::is_ascii_whitespace: space, tab, line feed, form feed, carriage return
is_ascii_whitespace(c) == c \in {" ", "\t", "\n", "\f", "\r"}

\* the pattern b' ' | b'\t' | b'\n' | b'\r' of the scanners
IsBlank(c) == c \in {" ", "\t", "\n", "\r"}

\* pas_lex::is_ident_start
is_ident_start(c) == c \in Upper \/ c \in Lower \/ c = "_"

\* pas_lex::is_ident_continue
is_ident_continue(c) == c \in Upper \/ c \in Lower \/ c \in Digit \/ c = "_" \/ c = "."

(***************************************************************************)
(* pas_lex.rs: the lexical scanner                                         *)
(***************************************************************************)
\* the scan goes on inside the comment
skip_brace_comment_into(bytes, i) == i

\* the literal ends at the first quote, doubled or not
RECURSIVE skip_string_first_quote(_, _)
skip_string_first_quote(bytes, i) ==
    IF i < Len(bytes)
    THEN IF At(bytes, i) = "'" THEN i + 1 ELSE skip_string_first_quote(bytes, i + 1)
    ELSE Len(bytes)

RECURSIVE skip_brace_comment(_, _)
skip_brace_comment(bytes, i) ==
    IF i < Len(bytes)
    THEN IF At(bytes, i) = "}" THEN i + 1 ELSE skip_brace_comment(bytes, i + 1)
    ELSE Len(bytes)

RECURSIVE skip_paren_comment(_, _)
skip_paren_comment(bytes, i) ==
    IF i + 1 < Len(bytes)
    THEN IF At(bytes, i) = "*" /\ At(bytes, i + 1) = ")"
         THEN i + 2
         ELSE skip_paren_comment(bytes, i + 1)
    ELSE Len(bytes)

RECURSIVE skip_line_comment(_, _)
skip_line_comment(bytes, i) ==
    IF i < Len(bytes)
    THEN IF At(bytes, i) = "\n" THEN i + 1 ELSE skip_line_comment(bytes, i + 1)
    ELSE Len(bytes)

RECURSIVE skip_string(_, _)
skip_string(bytes, i) ==
    IF i < Len(bytes)
    THEN IF At(bytes, i) = "'"
         THEN IF i + 1 < Len(bytes) /\ At(bytes, i + 1) = "'"
              THEN skip_string(bytes, i + 2)
              ELSE i + 1
         ELSE skip_string(bytes, i + 1)
    ELSE Len(bytes)

\* the loop of read_string_literal: Some(<<value, end>>) or None
RECURSIVE read_string_literal_loop(_, _, _)
read_string_literal_loop(bytes, i, out) ==
    IF i < Len(bytes)
    THEN IF At(bytes, i) = "'"
         THEN IF i + 1 < Len(bytes) /\ At(bytes, i + 1) = "'"
              THEN read_string_literal_loop(bytes, i + 2, Append(out, "'"))
              ELSE Some(<<out, i + 1>>)
         ELSE read_string_literal_loop(bytes, i + 1, Append(out, At(bytes, i)))
    ELSE None

read_string_literal(bytes, start) ==
    IF ~(start < Len(bytes) /\ At(bytes, start) = "'")
    THEN None
    ELSE read_string_literal_loop(bytes, start + 1, <<>>)

RECURSIVE skip_ws_and_comments(_, _)
skip_ws_and_comments(bytes, i) ==
    IF i < Len(bytes)
    THEN LET c == At(bytes, i) IN
         CASE IsBlank(c) -> skip_ws_and_comments(bytes, i + 1)
           [] c = "{" -> skip_ws_and_comments(bytes, skip_brace_comment(bytes, i + 1))
           [] c = "(" /\ i + 1 < Len(bytes) /\ At(bytes, i + 1) = "*" ->
                  skip_ws_and_comments(bytes, skip_paren_comment(bytes, i + 2))
           [] c = "/" /\ i + 1 < Len(bytes) /\ At(bytes, i + 1) = "/" ->
                  skip_ws_and_comments(bytes, skip_line_comment(bytes, i + 2))
           [] c = "'" -> skip_ws_and_comments(bytes, skip_string(bytes, i + 1))
           [] OTHER -> i
    ELSE i

RECURSIVE skip_ws(_, _)
skip_ws(bytes, i) ==
    IF i < Len(bytes) /\ is_ascii_whitespace(At(bytes, i))
    THEN skip_ws(bytes, i + 1)
    ELSE i

RECURSIVE read_ident_end(_, _)
read_ident_end(bytes, i) ==
    IF i < Len(bytes) /\ is_ident_continue(At(bytes, i))
    THEN read_ident_end(bytes, i + 1)
    ELSE i

\* <<token, next>>
read_ident(bytes, i) ==
    Bind(read_ident_end(bytes, i + 1), LAMBDA e : <<Slice(bytes, i, e), e>>)

read_ident_with_dots(bytes, i) == read_ident(bytes, i)

\* CommentEnd::Brace is "Brace", CommentEnd::Paren is "Paren"
is_comment_end(bytes, i, end) ==
    IF end = "Brace"
    THEN i < Len(bytes) /\ At(bytes, i) = "}"
    ELSE i + 1 < Len(bytes) /\ At(bytes, i) = "*" /\ At(bytes, i + 1) = ")"

RECURSIVE find_comment_end(_, _, _)
find_comment_end(bytes, i, end) ==
    IF i < Len(bytes)
    THEN IF is_comment_end(bytes, i, end)
         THEN Some(IF end = "Brace" THEN i + 1 ELSE i + 2)
         ELSE find_comment_end(bytes, i + 1, end)
    ELSE None

\* str::trim of a value that is tested for emptiness only
RECURSIVE TrimStart(_)
TrimStart(s) ==
    IF s # <<>> /\ is_ascii_whitespace(Head(s)) THEN TrimStart(Tail(s)) ELSE s

RECURSIVE TrimEnd(_)
TrimEnd(s) ==
    IF s # <<>> /\ is_ascii_whitespace(s[Len(s)])
    THEN TrimEnd(SubSeq(s, 1, Len(s) - 1))
    ELSE s

Trim(s) == TrimEnd(TrimStart(s))

RECURSIVE bare_filename_end(_, _, _)
bare_filename_end(bytes, i, end) ==
    IF i < Len(bytes) /\ ~is_ascii_whitespace(At(bytes, i)) /\ ~is_comment_end(bytes, i, end)
    THEN bare_filename_end(bytes, i + 1, end)
    ELSE i

\* Some(<<filename, next>>) or None
read_directive_filename(bytes, i, end) ==
    IF i >= Len(bytes) THEN None
    ELSE IF At(bytes, i) = "'"
    THEN Bind(read_string_literal(bytes, i), LAMBDA lit :
            IF IsNone(lit) THEN None
            ELSE IF Trim(Unwrap(lit)[1]) = <<>> THEN None
            ELSE lit)
    ELSE Bind(bare_filename_end(bytes, i, end), LAMBDA e :
            IF e = i THEN None
            ELSE Bind(Trim(Slice(bytes, i, e)), LAMBDA value :
                    IF value = <<>> THEN None
                    ELSE IF value = <<"+">> \/ value = <<"-">> THEN None
                    ELSE Some(<<value, e>>)))

\* the rest of parse_include_directive_inner after the directive name
IncludeDirectiveFile(bytes, i, end) ==
    Bind(read_directive_filename(bytes, skip_ws(bytes, i), end), LAMBDA fname :
        IF IsNone(fname) THEN None
        ELSE Bind(find_comment_end(bytes, skip_ws(bytes, Unwrap(fname)[2]), end),
                  LAMBDA end_pos :
                    IF IsNone(end_pos) THEN None
                    ELSE Some(<<Unwrap(fname)[1], Unwrap(end_pos)>>)))

\* Some(<<filename, end_pos>>) or None
parse_include_directive_inner(bytes, i0, end) ==
    Bind(skip_ws(bytes, i0), LAMBDA i1 :
        IF ~(i1 < Len(bytes) /\ At(bytes, i1) = "$") THEN None
        ELSE Bind(skip_ws(bytes, i1 + 1), LAMBDA i2 :
            IF i2 >= Len(bytes) \/ ~is_ident_start(At(bytes, i2)) THEN None
            ELSE Bind(read_ident(bytes, i2), LAMBDA tok :
                IF ~eq_ignore_ascii_case(tok[1], <<"i">>)
                   /\ ~eq_ignore_ascii_case(tok[1], <<"i", "n", "c", "l", "u", "d", "e">>)
                THEN None
                ELSE IncludeDirectiveFile(bytes, tok[2], end))))

parse_include_directive(bytes, start) ==
    IF start >= Len(bytes) THEN None
    ELSE IF At(bytes, start) = "{"
    THEN parse_include_directive_inner(bytes, start + 1, "Brace")
    ELSE IF At(bytes, start) = "(" /\ start + 1 < Len(bytes) /\ At(bytes, start + 1) = "*"
    THEN parse_include_directive_inner(bytes, start + 2, "Paren")
    ELSE None

(***************************************************************************)
(* Paths.  PathBuf::from splits a string at the separators of the          *)
(* platform; the tool edits Delphi projects, and both '\' and '/' separate *)
(* components on Windows.                                                  *)
(***************************************************************************)
PathSeparators == {"\\", "/"}

RECURSIVE SplitPath(_, _, _)
SplitPath(raw, k, comp) ==
    IF k > Len(raw)
    THEN IF comp = <<>> THEN <<>> ELSE <<comp>>
    ELSE IF raw[k] \in PathSeparators
         THEN (IF comp = <<>> THEN <<>> ELSE <<comp>>) \o SplitPath(raw, k + 1, <<>>)
         ELSE SplitPath(raw, k + 1, Append(comp, raw[k]))

\* PathBuf::from(raw), as its list of components
PathFromText(raw) == SplitPath(raw, 1, <<>>)

DotDot == <<".", ".">>

\* resolution of the ".." components of an existing path by fs::canonicalize
RECURSIVE Normalize(_, _)
Normalize(path, acc) ==
    IF path = <<>> THEN acc
    ELSE IF Head(path) = DotDot /\ acc # <<>>
         THEN Normalize(Tail(path), SubSeq(acc, 1, Len(acc) - 1))
         ELSE Normalize(Tail(path), Append(acc, Head(path)))

\* Path::parent
Parent(path) == SubSeq(path, 1, Len(path) - 1)

\* the regular files of the file system fs = [text, units]
FileExists(fs, path) == path \in DOMAIN fs.text \/ path \in DOMAIN fs.units

\* unit_cache::canonicalize_if_exists: fs::canonicalize(path), or path itself
\* when that fails (the path does not exist)
canonicalize_if_exists(fs, path) ==
    Bind(Normalize(path, <<>>), LAMBDA n : IF FileExists(fs, n) THEN n ELSE path)

\* Path::is_file
is_file(fs, path) == FileExists(fs, Normalize(path, <<>>))

\* fs::read of a text file: Some(bytes) or None (the Err case)
fs_read(fs, path) ==
    Bind(Normalize(path, <<>>), LAMBDA n :
        IF n \in DOMAIN fs.text THEN Some(fs.text[n]) ELSE None)

(***************************************************************************)
(* uses_include.rs: the include resolver                                   *)
(***************************************************************************)
\* include names of the model are relative (candidate.is_absolute() is false)
resolve_include_path(source_path, include) == Parent(source_path) \o PathFromText(include)

\* the directive is dropped and no warning is pushed
IncludeCycle_silent(include_path, source_path, warnings, include_stack) ==
    [call |-> None, warnings |-> warnings, include_stack |-> include_stack]

\* the branch of with_include_bytes taken when the stack holds the canonical
\* path of the include
IncludeCycle(include_path, source_path, warnings, include_stack) ==
    [call |-> None,
     warnings |-> Append(warnings,
                     <<"include cycle detected", include_path, source_path>>),
     include_stack |-> include_stack]

\* with_include_bytes up to the call of its callback f:
\* [call, warnings, include_stack].  call is None when the operator returns
\* None without a call; else it holds the arguments [include_path, bytes] of
\* the call, and include_stack has the canonical path pushed.
with_include_bytes(fs, include_name, source_path, warnings, include_stack) ==
    Bind(resolve_include_path(source_path, include_name), LAMBDA include_path :
    Bind(canonicalize_if_exists(fs, include_path), LAMBDA canonical :
        IF canonical \in Range(include_stack)
        THEN IncludeCycle(include_path, source_path, warnings, include_stack)
        ELSE Bind(fs_read(fs, include_path), LAMBDA data :
            IF IsNone(data)
            THEN [call |-> None,
                  warnings |-> Append(warnings,
                                  <<"failed to read include", include_path, source_path>>),
                  include_stack |-> include_stack]
            ELSE [call |-> Some([include_path |-> include_path, bytes |-> Unwrap(data)]),
                  warnings |-> warnings,
                  include_stack |-> Append(include_stack, canonical)])))

\* the callback has returned and the stack is left as the callback left it
IncludePop_kept(include_stack) == include_stack

\* with_include_bytes after the callback: include_stack.pop()
IncludePop(include_stack) == SubSeq(include_stack, 1, Len(include_stack) - 1)

(***************************************************************************)
(* dpr_edit.rs: parsing the uses clause of a .dpr                          *)
(*                                                                         *)
(* UsesEntry  == [name, in_path, start, delimiter, delimiter_pos,          *)
(*                from_include]                                            *)
(* DprParseState == [warnings, include_stack, has_backslash, has_slash,    *)
(*                   include_semicolon]                                    *)
(***************************************************************************)
peek_ident(bytes, i) ==
    IF i < Len(bytes) /\ is_ident_start(At(bytes, i))
    THEN Some(read_ident(bytes, i))
    ELSE None

\* [has_backslash, has_slash] after update_path_separator_flags
update_path_separator_flags(in_path, state) ==
    IF IsNone(in_path) THEN state
    ELSE [state EXCEPT
            !.has_backslash = @ \/ "\\" \in Range(Unwrap(in_path)),
            !.has_slash = @ \/ "/" \in Range(Unwrap(in_path))]

RECURSIVE skip_ws_and_comments_no_strings(_, _)
skip_ws_and_comments_no_strings(bytes, i) ==
    IF i < Len(bytes)
    THEN LET c == At(bytes, i) IN
         CASE IsBlank(c) -> skip_ws_and_comments_no_strings(bytes, i + 1)
           [] c = "{" -> skip_ws_and_comments_no_strings(bytes, skip_brace_comment(bytes, i + 1))
           [] c = "(" /\ i + 1 < Len(bytes) /\ At(bytes, i + 1) = "*" ->
                  skip_ws_and_comments_no_strings(bytes, skip_paren_comment(bytes, i + 2))
           [] c = "/" /\ i + 1 < Len(bytes) /\ At(bytes, i + 1) = "/" ->
                  skip_ws_and_comments_no_strings(bytes, skip_line_comment(bytes, i + 2))
           [] OTHER -> i
    ELSE i

\* the position after a '{' or '(' that opens no include directive
SkipCommentOrParen(bytes, i) ==
    IF At(bytes, i) = "{" THEN skip_brace_comment(bytes, i + 1)
    ELSE IF i + 1 < Len(bytes) /\ At(bytes, i + 1) = "*" THEN skip_paren_comment(bytes, i + 2)
    ELSE i + 1

RECURSIVE parse_uses_fragment_for_dpr(_, _, _, _, _, _, _)
RECURSIVE skip_ws_comments_and_includes_dpr(_, _, _, _, _, _, _)
RECURSIVE scan_to_delimiter_with_includes(_, _, _, _, _, _, _)
RECURSIVE parse_include_entries_for_dpr(_, _, _, _, _)

\* [entries, state]: the entries of the include file, and the parse state after it
parse_include_entries_for_dpr(fs, include_name, anchor, source_path, state) ==
    Bind(with_include_bytes(fs, include_name, source_path,
                            state.warnings, state.include_stack), LAMBDA w :
        IF IsNone(w.call)
        THEN \* unwrap_or_default()
             [entries |-> <<>>,
              state |-> [state EXCEPT !.warnings = w.warnings,
                                      !.include_stack = w.include_stack]]
        ELSE Bind(parse_uses_fragment_for_dpr(fs, Unwrap(w.call).bytes, 0,
                      Unwrap(w.call).include_path, <<>>,
                      [state EXCEPT !.warnings = w.warnings,
                                    !.include_stack = w.include_stack],
                      Some(anchor)),
                  LAMBDA p :
                    [entries |-> p.entries,
                     state |-> [p.state EXCEPT !.include_stack = IncludePop(@)]]))

\* entry_start_override.unwrap_or(i)
AnchorOf(entry_start_override, i) ==
    IF IsSome(entry_start_override) THEN Unwrap(entry_start_override) ELSE i

\* [i, entries, state]
skip_ws_comments_and_includes_dpr(fs, bytes, i, source_path, entries, state, entry_start_override) ==
    IF i < Len(bytes)
    THEN CASE IsBlank(At(bytes, i)) ->
                skip_ws_comments_and_includes_dpr(fs, bytes, i + 1, source_path, entries,
                                                  state, entry_start_override)
           [] At(bytes, i) = "{" \/ At(bytes, i) = "(" ->
                Bind(parse_include_directive(bytes, i), LAMBDA dir :
                    IF IsSome(dir)
                    THEN Bind(parse_include_entries_for_dpr(fs, Unwrap(dir)[1],
                                  AnchorOf(entry_start_override, i), source_path, state),
                              LAMBDA inc :
                                skip_ws_comments_and_includes_dpr(fs, bytes, Unwrap(dir)[2],
                                    source_path, entries \o inc.entries, inc.state,
                                    entry_start_override))
                    ELSE skip_ws_comments_and_includes_dpr(fs, bytes,
                             SkipCommentOrParen(bytes, i), source_path, entries, state,
                             entry_start_override))
           [] At(bytes, i) = "/" /\ i + 1 < Len(bytes) /\ At(bytes, i + 1) = "/" ->
                skip_ws_comments_and_includes_dpr(fs, bytes, skip_line_comment(bytes, i + 2),
                    source_path, entries, state, entry_start_override)
           [] At(bytes, i) = "'" ->
                skip_ws_comments_and_includes_dpr(fs, bytes, skip_string(bytes, i + 1),
                    source_path, entries, state, entry_start_override)
           [] OTHER -> [i |-> i, entries |-> entries, state |-> state]
    ELSE [i |-> i, entries |-> entries, state |-> state]

\* [pos, delim, include_entries, state]; delim is an Option
scan_to_delimiter_with_includes(fs, bytes, i, source_path, state, entry_start_override, include_entries) ==
    IF i < Len(bytes)
    THEN CASE At(bytes, i) = "," \/ At(bytes, i) = ";" ->
                [pos |-> i, delim |-> Some(At(bytes, i)),
                 include_entries |-> include_entries, state |-> state]
           [] At(bytes, i) = "{" \/ At(bytes, i) = "(" ->
                Bind(parse_include_directive(bytes, i), LAMBDA dir :
                    IF IsSome(dir)
                    THEN Bind(parse_include_entries_for_dpr(fs, Unwrap(dir)[1],
                                  AnchorOf(entry_start_override, i), source_path, state),
                              LAMBDA inc :
                                scan_to_delimiter_with_includes(fs, bytes, Unwrap(dir)[2],
                                    source_path, inc.state, entry_start_override,
                                    include_entries \o inc.entries))
                    ELSE scan_to_delimiter_with_includes(fs, bytes,
                             SkipCommentOrParen(bytes, i), source_path, state,
                             entry_start_override, include_entries))
           [] At(bytes, i) = "/" /\ i + 1 < Len(bytes) /\ At(bytes, i + 1) = "/" ->
                scan_to_delimiter_with_includes(fs, bytes, skip_line_comment(bytes, i + 2),
                    source_path, state, entry_start_override, include_entries)
           [] At(bytes, i) = "'" ->
                scan_to_delimiter_with_includes(fs, bytes, skip_string(bytes, i + 1),
                    source_path, state, entry_start_override, include_entries)
           [] OTHER ->
                scan_to_delimiter_with_includes(fs, bytes, i + 1, source_path, state,
                    entry_start_override, include_entries)
    ELSE [pos |-> i, delim |-> None, include_entries |-> include_entries, state |-> state]

\* the string after "in": [in_path, i]
InPathLiteral(bytes, j) ==
    IF j < Len(bytes) /\ At(bytes, j) = "'"
    THEN Bind(read_string_literal(bytes, j), LAMBDA lit :
            IF IsSome(lit)
            THEN [in_path |-> Some(Unwrap(lit)[1]), i |-> Unwrap(lit)[2]]
            ELSE [in_path |-> None, i |-> skip_string(bytes, j + 1)])
    ELSE [in_path |-> None, i |-> j]

\* the optional "in '<path>'" after an entry name: [in_path, i]
ParseInPath(bytes, i) ==
    Bind(peek_ident(bytes, i), LAMBDA pk :
        IF IsSome(pk) /\ eq_ignore_ascii_case(Unwrap(pk)[1], <<"i", "n">>)
        THEN InPathLiteral(bytes, skip_ws_and_comments_no_strings(bytes, Unwrap(pk)[2]))
        ELSE [in_path |-> None, i |-> i])

\* the UsesEntry pushed for the name id[1] read at entry_start, given the
\* result sc of scan_to_delimiter_with_includes
MakeEntry(name, in_path, entry_start, sc, entry_start_override) ==
    [name |-> name,
     in_path |-> in_path,
     start |-> AnchorOf(entry_start_override, entry_start),
     delimiter |-> sc.delim,
     delimiter_pos |-> IF IsSome(entry_start_override) \/ IsNone(sc.delim)
                       THEN None ELSE Some(sc.pos),
     from_include |-> IsSome(entry_start_override)]

\* [ret, entries, state]; ret is Option<usize>, the offset of the closing ';'
parse_uses_fragment_for_dpr(fs, bytes, i, source_path, entries, state, entry_start_override) ==
    IF i >= Len(bytes)
    THEN [ret |-> None, entries |-> entries, state |-> state]
    ELSE
    Bind(skip_ws_comments_and_includes_dpr(fs, bytes, i, source_path, entries, state,
                                           entry_start_override), LAMBDA sk :
    IF sk.i >= Len(bytes)
    THEN [ret |-> None, entries |-> sk.entries, state |-> sk.state]
    ELSE IF At(bytes, sk.i) = ";"
    THEN [ret |-> Some(sk.i), entries |-> sk.entries,
          state |-> IF IsSome(entry_start_override)
                    THEN [sk.state EXCEPT
                            !.warnings = Append(@, <<"include file contains ';' in uses list",
                                                     source_path>>),
                            !.include_semicolon = TRUE]
                    ELSE sk.state]
    ELSE IF ~is_ident_start(At(bytes, sk.i))
    THEN parse_uses_fragment_for_dpr(fs, bytes, sk.i + 1, source_path, sk.entries, sk.state,
                                     entry_start_override)
    ELSE
    Bind(read_ident_with_dots(bytes, sk.i), LAMBDA id :
    Bind(ParseInPath(bytes, skip_ws_and_comments(bytes, id[2])), LAMBDA ip :
    Bind(scan_to_delimiter_with_includes(fs, bytes, ip.i, source_path,
             update_path_separator_flags(ip.in_path, sk.state),
             entry_start_override, <<>>), LAMBDA sc :
    Bind(Append(sk.entries, MakeEntry(id[1], ip.in_path, sk.i, sc, entry_start_override))
             \o sc.include_entries, LAMBDA entries1 :
    IF sc.delim = Some(",")
    THEN parse_uses_fragment_for_dpr(fs, bytes, sc.pos + 1, source_path, entries1, sc.state,
                                     entry_start_override)
    ELSE IF sc.delim = Some(";")
    THEN [ret |-> Some(sc.pos), entries |-> entries1, state |-> sc.state]
    ELSE [ret |-> None, entries |-> entries1, state |-> sc.state])))))

\* the index of the last '\n' before entry_start, plus one (0 when there is none)
RECURSIVE LineStart(_, _)
LineStart(bytes, k) ==
    IF k = 0 THEN 0
    ELSE IF At(bytes, k - 1) = "\n" THEN k ELSE LineStart(bytes, k - 1)

RECURSIVE TakeIndent(_, _, _)
TakeIndent(bytes, k, stop) ==
    IF k < stop /\ At(bytes, k) \in {" ", "\t"}
    THEN <<At(bytes, k)>> \o TakeIndent(bytes, k + 1, stop)
    ELSE <<>>

infer_indent(bytes, entry_start) ==
    TakeIndent(bytes, LineStart(bytes, entry_start), entry_start)

\* the UsesList built from the entries and the offset of the semicolon
MakeUsesList(bytes, list_start, semicolon, entries, state) ==
    Bind("\n" \in Range(Slice(bytes, list_start, semicolon)), LAMBDA multiline :
        [entries |-> entries,
         semicolon |-> semicolon,
         multiline |-> multiline,
         indent |-> IF multiline THEN infer_indent(bytes, entries[1].start) ELSE <<>>,
         has_backslash |-> state.has_backslash,
         has_slash |-> state.has_slash])

\* [list |-> Option<UsesList>, warnings]: the list, with the warnings of the parse
parse_dpr_uses_list(fs, dpr_path, bytes, i, warnings) ==
    Bind(parse_uses_fragment_for_dpr(fs, bytes, i, dpr_path, <<>>,
             [warnings |-> warnings,
              include_stack |-> <<canonicalize_if_exists(fs, dpr_path)>>,
              has_backslash |-> FALSE,
              has_slash |-> FALSE,
              include_semicolon |-> FALSE],
             None), LAMBDA p :
        IF IsNone(p.ret) \/ p.state.include_semicolon \/ p.entries = <<>>
        THEN [list |-> None, warnings |-> p.state.warnings]
        ELSE [list |-> Some(MakeUsesList(bytes, i, Unwrap(p.ret), p.entries, p.state)),
              warnings |-> p.state.warnings])

RECURSIVE parse_dpr_uses_from(_, _, _, _, _)
parse_dpr_uses_from(fs, dpr_path, bytes, i, warnings) ==
    IF i < Len(bytes)
    THEN LET c == At(bytes, i) IN
         CASE c = "{" ->
                parse_dpr_uses_from(fs, dpr_path, bytes, skip_brace_comment(bytes, i + 1), warnings)
           [] c = "(" /\ i + 1 < Len(bytes) /\ At(bytes, i + 1) = "*" ->
                parse_dpr_uses_from(fs, dpr_path, bytes, skip_paren_comment(bytes, i + 2), warnings)
           [] c = "/" /\ i + 1 < Len(bytes) /\ At(bytes, i + 1) = "/" ->
                parse_dpr_uses_from(fs, dpr_path, bytes, skip_line_comment(bytes, i + 2), warnings)
           [] c = "'" ->
                parse_dpr_uses_from(fs, dpr_path, bytes, skip_string(bytes, i + 1), warnings)
           [] is_ident_start(c) ->
                Bind(read_ident(bytes, i), LAMBDA tok :
                    IF eq_ignore_ascii_case(tok[1], <<"u", "s", "e", "s">>)
                    THEN parse_dpr_uses_list(fs, dpr_path, bytes, tok[2], warnings)
                    ELSE parse_dpr_uses_from(fs, dpr_path, bytes, tok[2], warnings))
           [] OTHER -> parse_dpr_uses_from(fs, dpr_path, bytes, i + 1, warnings)
    ELSE [list |-> None, warnings |-> warnings]

\* parse_dpr_uses: [list |-> Option<UsesList>, warnings]
parse_dpr_uses(fs, dpr_path, bytes, warnings) ==
    parse_dpr_uses_from(fs, dpr_path, bytes, 0, warnings)

(***************************************************************************)
(* unit_cache.rs: parsing the uses clauses of a unit                       *)
(*                                                                         *)
(* The walk of a fragment is [i, deps, warnings, include_stack].           *)
(***************************************************************************)
RECURSIVE parse_uses_fragment_with_includes(_, _, _, _, _, _, _)
RECURSIVE skip_ws_comments_and_includes(_, _, _, _, _, _, _)
RECURSIVE scan_to_delimiter_with_includes_unit(_, _, _, _, _, _, _)
RECURSIVE parse_include_entries_for_unit(_, _, _, _, _)

\* [entries, warnings, include_stack]
parse_include_entries_for_unit(fs, include_name, source_path, warnings, include_stack) ==
    Bind(with_include_bytes(fs, include_name, source_path, warnings, include_stack),
         LAMBDA w :
        IF IsNone(w.call)
        THEN \* unwrap_or_default()
             [entries |-> <<>>, warnings |-> w.warnings, include_stack |-> w.include_stack]
        ELSE Bind(parse_uses_fragment_with_includes(fs, Unwrap(w.call).bytes, 0,
                      Unwrap(w.call).include_path, w.warnings, <<>>, w.include_stack),
                  LAMBDA p :
                    [entries |-> p.deps, warnings |-> p.warnings,
                     include_stack |-> IncludePop(p.include_stack)]))

\* [i, deps, warnings, include_stack]
skip_ws_comments_and_includes(fs, bytes, i, source_path, warnings, deps, include_stack) ==
    IF i < Len(bytes)
    THEN CASE IsBlank(At(bytes, i)) ->
                skip_ws_comments_and_includes(fs, bytes, i + 1, source_path, warnings,
                                              deps, include_stack)
           [] At(bytes, i) = "{" \/ At(bytes, i) = "(" ->
                Bind(parse_include_directive(bytes, i), LAMBDA dir :
                    IF IsSome(dir)
                    THEN Bind(parse_include_entries_for_unit(fs, Unwrap(dir)[1], source_path,
                                  warnings, include_stack),
                              LAMBDA inc :
                                skip_ws_comments_and_includes(fs, bytes, Unwrap(dir)[2],
                                    source_path, inc.warnings, deps \o inc.entries,
                                    inc.include_stack))
                    ELSE skip_ws_comments_and_includes(fs, bytes,
                             SkipCommentOrParen(bytes, i), source_path, warnings, deps,
                             include_stack))
           [] At(bytes, i) = "/" /\ i + 1 < Len(bytes) /\ At(bytes, i + 1) = "/" ->
                skip_ws_comments_and_includes(fs, bytes, skip_line_comment(bytes, i + 2),
                    source_path, warnings, deps, include_stack)
           [] At(bytes, i) = "'" ->
                skip_ws_comments_and_includes(fs, bytes, skip_string(bytes, i + 1),
                    source_path, warnings, deps, include_stack)
           [] OTHER -> [i |-> i, deps |-> deps, warnings |-> warnings,
                        include_stack |-> include_stack]
    ELSE [i |-> i, deps |-> deps, warnings |-> warnings, include_stack |-> include_stack]

\* unit_cache::scan_to_delimiter_with_includes:
\* [pos, delim, deps, warnings, include_stack]; delim is an Option
scan_to_delimiter_with_includes_unit(fs, bytes, i, source_path, warnings, deps, include_stack) ==
    IF i < Len(bytes)
    THEN CASE At(bytes, i) = "," \/ At(bytes, i) = ";" ->
                [pos |-> i, delim |-> Some(At(bytes, i)), deps |-> deps,
                 warnings |-> warnings, include_stack |-> include_stack]
           [] At(bytes, i) = "{" \/ At(bytes, i) = "(" ->
                Bind(parse_include_directive(bytes, i), LAMBDA dir :
                    IF IsSome(dir)
                    THEN Bind(parse_include_entries_for_unit(fs, Unwrap(dir)[1], source_path,
                                  warnings, include_stack),
                              LAMBDA inc :
                                scan_to_delimiter_with_includes_unit(fs, bytes,
                                    Unwrap(dir)[2], source_path, inc.warnings,
                                    deps \o inc.entries, inc.include_stack))
                    ELSE scan_to_delimiter_with_includes_unit(fs, bytes,
                             SkipCommentOrParen(bytes, i), source_path, warnings, deps,
                             include_stack))
           [] At(bytes, i) = "/" /\ i + 1 < Len(bytes) /\ At(bytes, i + 1) = "/" ->
                scan_to_delimiter_with_includes_unit(fs, bytes,
                    skip_line_comment(bytes, i + 2), source_path, warnings, deps,
                    include_stack)
           [] At(bytes, i) = "'" ->
                scan_to_delimiter_with_includes_unit(fs, bytes, skip_string(bytes, i + 1),
                    source_path, warnings, deps, include_stack)
           [] OTHER ->
                scan_to_delimiter_with_includes_unit(fs, bytes, i + 1, source_path,
                    warnings, deps, include_stack)
    ELSE [pos |-> i, delim |-> None, deps |-> deps, warnings |-> warnings,
          include_stack |-> include_stack]

\* the position after the optional "in '<path>'" of a unit's uses entry
SkipInPath(bytes, i) ==
    Bind(peek_ident(bytes, i), LAMBDA pk :
        IF IsSome(pk) /\ eq_ignore_ascii_case(Unwrap(pk)[1], <<"i", "n">>)
        THEN Bind(skip_ws_and_comments(bytes, Unwrap(pk)[2]), LAMBDA j :
                IF j < Len(bytes) /\ At(bytes, j) = "'"
                THEN skip_string(bytes, j + 1)
                ELSE j)
        ELSE i)

\* [i, ok, deps, warnings, include_stack]
parse_uses_fragment_with_includes(fs, bytes, i, source_path, warnings, deps, include_stack) ==
    Bind(skip_ws_comments_and_includes(fs, bytes, i, source_path, warnings, deps,
                                       include_stack), LAMBDA sk :
        IF sk.i >= Len(bytes)
        THEN [i |-> sk.i, ok |-> FALSE, deps |-> sk.deps, warnings |-> sk.warnings,
              include_stack |-> sk.include_stack]
        ELSE IF At(bytes, sk.i) = ";"
        THEN [i |-> sk.i + 1, ok |-> TRUE, deps |-> sk.deps, warnings |-> sk.warnings,
              include_stack |-> sk.include_stack]
        ELSE IF ~is_ident_start(At(bytes, sk.i))
        THEN parse_uses_fragment_with_includes(fs, bytes, sk.i + 1, source_path,
                 sk.warnings, sk.deps, sk.include_stack)
        ELSE
        Bind(read_ident_with_dots(bytes, sk.i), LAMBDA tok :
        Bind(scan_to_delimiter_with_includes_unit(fs, bytes,
                 SkipInPath(bytes, skip_ws_and_comments(bytes, tok[2])), source_path,
                 sk.warnings,
                 IF tok[1] # <<>> THEN Append(sk.deps, tok[1]) ELSE sk.deps,
                 sk.include_stack), LAMBDA sc :
            IF sc.delim = Some(",")
            THEN parse_uses_fragment_with_includes(fs, bytes, sc.pos + 1, source_path,
                     sc.warnings, sc.deps, sc.include_stack)
            ELSE IF sc.delim = Some(";")
            THEN [i |-> sc.pos + 1, ok |-> TRUE, deps |-> sc.deps,
                  warnings |-> sc.warnings, include_stack |-> sc.include_stack]
            ELSE [i |-> sc.pos, ok |-> FALSE, deps |-> sc.deps,
                  warnings |-> sc.warnings, include_stack |-> sc.include_stack])))

\* Section::None is "None", Section::Interface is "Interface",
\* Section::Implementation is "Implementation"; the walk is [deps, warnings]
RECURSIVE parse_unit_uses_from(_, _, _, _, _, _, _)
parse_unit_uses_from(fs, path, bytes, i, section, deps, warnings) ==
    IF i < Len(bytes)
    THEN CASE At(bytes, i) = "{" ->
                parse_unit_uses_from(fs, path, bytes, skip_brace_comment(bytes, i + 1),
                                     section, deps, warnings)
           [] At(bytes, i) = "(" /\ i + 1 < Len(bytes) /\ At(bytes, i + 1) = "*" ->
                parse_unit_uses_from(fs, path, bytes, skip_paren_comment(bytes, i + 2),
                                     section, deps, warnings)
           [] At(bytes, i) = "/" /\ i + 1 < Len(bytes) /\ At(bytes, i + 1) = "/" ->
                parse_unit_uses_from(fs, path, bytes, skip_line_comment(bytes, i + 2),
                                     section, deps, warnings)
           [] At(bytes, i) = "'" ->
                parse_unit_uses_from(fs, path, bytes, skip_string(bytes, i + 1),
                                     section, deps, warnings)
           [] is_ident_start(At(bytes, i)) ->
                Bind(read_ident(bytes, i), LAMBDA tok :
                    IF eq_ignore_ascii_case(tok[1], <<"i", "n", "t", "e", "r", "f", "a", "c", "e">>)
                    THEN parse_unit_uses_from(fs, path, bytes, tok[2], "Interface", deps,
                                              warnings)
                    ELSE IF eq_ignore_ascii_case(tok[1],
                              <<"i", "m", "p", "l", "e", "m", "e", "n", "t", "a", "t", "i", "o", "n">>)
                    THEN parse_unit_uses_from(fs, path, bytes, tok[2], "Implementation",
                                              deps, warnings)
                    ELSE IF eq_ignore_ascii_case(tok[1], <<"u", "s", "e", "s">>)
                            /\ section # "None"
                    THEN Bind(parse_uses_fragment_with_includes(fs, bytes, tok[2], path,
                                  warnings, deps, <<canonicalize_if_exists(fs, path)>>),
                              LAMBDA p :
                                parse_unit_uses_from(fs, path, bytes, p.i, section, p.deps,
                                                     p.warnings))
                    ELSE parse_unit_uses_from(fs, path, bytes, tok[2], section, deps,
                                              warnings))
           [] OTHER -> parse_unit_uses_from(fs, path, bytes, i + 1, section, deps, warnings)
    ELSE [deps |-> deps, warnings |-> warnings]

\* parse_unit_uses: [deps, warnings]
parse_unit_uses(fs, path, bytes, warnings) ==
    parse_unit_uses_from(fs, path, bytes, 0, "None", <<>>, warnings)

(***************************************************************************)
(* dpr_edit.rs: building and splicing the new entry                        *)
(***************************************************************************)
\* pathdiff::diff_paths(target, base) for two absolute, normalized paths
RECURSIVE diff_paths(_, _)
diff_paths(target, base) ==
    IF target # <<>> /\ base # <<>> /\ Head(target) = Head(base)
    THEN diff_paths(Tail(target), Tail(base))
    ELSE [k \in 1..Len(base) |-> DotDot] \o target

\* the components joined by the separator character sep
RECURSIVE JoinPath(_, _)
JoinPath(comps, sep) ==
    IF comps = <<>> THEN <<>>
    ELSE IF Len(comps) = 1 THEN Head(comps)
    ELSE Head(comps) \o <<sep>> \o JoinPath(Tail(comps), sep)

\* relative_path(target, base), as the components of the result; base is
\* dpr_path.parent(), which every .dpr of the model has
relative_path(target, base) == diff_paths(target, base)

\* the line ending is LF whatever the file holds
detect_line_ending_lf(bytes) == <<"\n">>

\* detect_line_ending
detect_line_ending(bytes) ==
    IF \E k \in 1..(Len(bytes) - 1) : bytes[k] = "\r" /\ bytes[k + 1] = "\n"
    THEN <<"\r", "\n">>
    ELSE <<"\n">>

RECURSIVE LeadingWsLen(_)
LeadingWsLen(s) ==
    IF s # <<>> /\ is_ascii_whitespace(Head(s)) THEN 1 + LeadingWsLen(Tail(s)) ELSE 0

separator_before_new_entry(bytes, list, separator_after) ==
    IF \A k \in 1..Len(separator_after) : is_ascii_whitespace(separator_after[k])
    THEN separator_after
    ELSE IF LeadingWsLen(separator_after) > 0
    THEN SubSeq(separator_after, 1, LeadingWsLen(separator_after))
    ELSE IF list.multiline
    THEN detect_line_ending(bytes) \o list.indent
    ELSE <<" ">>

\* the anchor may be an entry of an include file
build_insertion_after_any_anchor(bytes, list, insert_after, entry_text) ==
    IF insert_after + 1 >= Len(list.entries) THEN None
    ELSE IF list.entries[insert_after + 1].delimiter # Some(",") THEN None
    ELSE Bind(IF IsSome(list.entries[insert_after + 1].delimiter_pos)
              THEN Unwrap(list.entries[insert_after + 1].delimiter_pos)
              ELSE list.entries[insert_after + 1].start, LAMBDA delimiter_pos :
            Some(<<delimiter_pos + 1,
                   separator_before_new_entry(bytes, list,
                       Slice(bytes, delimiter_pos + 1, list.entries[insert_after + 2].start))
                   \o entry_text \o <<",">>>>))

\* Some(<<insert_at, insertion>>) or None; insert_after is a 0-based index
build_insertion_after(bytes, list, insert_after, entry_text) ==
    IF insert_after >= Len(list.entries) THEN None
    ELSE
    LET entry == list.entries[insert_after + 1] IN
    IF entry.from_include THEN None
    ELSE IF IsNone(entry.delimiter_pos) THEN None
    ELSE IF entry.delimiter # Some(",") THEN None
    ELSE IF insert_after + 1 >= Len(list.entries) THEN None
    ELSE
    LET delimiter_pos == Unwrap(entry.delimiter_pos)
        next_start == list.entries[insert_after + 2].start
    IN
    IF delimiter_pos + 1 > next_start \/ next_start > Len(bytes) THEN None
    ELSE Some(<<delimiter_pos + 1,
                separator_before_new_entry(bytes, list,
                    Slice(bytes, delimiter_pos + 1, next_start))
                \o entry_text \o <<",">>>>)

\* the separator character of the written path
PathSeparatorOf(list) ==
    IF list.has_backslash THEN "\\" ELSE IF list.has_slash THEN "/" ELSE "\\"

\* format!("{} in '{}'", new_unit.name, rel_path)
EntryText(dpr_path, list, new_unit) ==
    new_unit.name \o <<" ", "i", "n", " ", "'">>
    \o JoinPath(relative_path(new_unit.path, Parent(dpr_path)), PathSeparatorOf(list))
    \o <<"'">>

\* the position before the white space that precedes pos
RECURSIVE SkipWsBackward(_, _)
SkipWsBackward(bytes, pos) ==
    IF pos > 0 /\ is_ascii_whitespace(At(bytes, pos - 1))
    THEN SkipWsBackward(bytes, pos - 1)
    ELSE pos

\* the delimiter of the last entry, an Option
LastDelim(list) ==
    IF list.entries = <<>> THEN None ELSE list.entries[Len(list.entries)].delimiter

\* the insertion at the end of the list: <<insert_at, insertion>>
AppendInsertion(bytes, list, entry_text) ==
    LET last_comma == LastDelim(list) = Some(",")
        insertion == IF list.multiline
                     THEN (IF last_comma THEN <<>> ELSE <<",">>)
                          \o detect_line_ending(bytes) \o list.indent \o entry_text
                     ELSE (IF last_comma THEN <<" ">> ELSE <<",", " ">>) \o entry_text
        insert_at == IF list.multiline /\ ~last_comma
                     THEN SkipWsBackward(bytes, list.semicolon)
                     ELSE list.semicolon
    IN  <<insert_at, insertion>>

\* the splice insert_new_unit makes: <<insert_at, insert_bytes>>;
\* insert_after is an Option<usize>
InsertionOf(bytes, dpr_path, list, new_unit, insert_after) ==
    LET entry_text == EntryText(dpr_path, list, new_unit)
        anchored == IF IsSome(insert_after)
                    THEN build_insertion_after(bytes, list, Unwrap(insert_after), entry_text)
                    ELSE None
    IN  IF IsSome(anchored) THEN Unwrap(anchored)
        ELSE AppendInsertion(bytes, list, entry_text)

\* a splice that overwrites the byte at the offset of the insertion
insert_new_unit_overwriting(bytes, dpr_path, list, new_unit, insert_after) ==
    LET ins == InsertionOf(bytes, dpr_path, list, new_unit, insert_after) IN
    Slice(bytes, 0, ins[1]) \o ins[2] \o Slice(bytes, ins[1] + 1, Len(bytes))

\* the contents insert_new_unit hands to write_atomic
insert_new_unit(bytes, dpr_path, list, new_unit, insert_after) ==
    LET ins == InsertionOf(bytes, dpr_path, list, new_unit, insert_after) IN
    Slice(bytes, 0, ins[1]) \o ins[2] \o Slice(bytes, ins[1], Len(bytes))

(***************************************************************************)
(* dpr_edit.rs: write_atomic, and the file-system calls it makes.  Each    *)
(* call either takes effect or fails; the outcomes of a call are a set of  *)
(* [.., text] records, text being the text files after the call.           *)
(***************************************************************************)
\* HashMap::insert
MapInsert(map, key, value) ==
    [k \in DOMAIN map \cup {key} |-> IF k = key THEN value ELSE map[k]]

\* HashMap::remove
MapRemove(map, key) == [k \in DOMAIN map \ {key} |-> map[k]]

\* the index of the last '.' of a file name, or 0
LastDot(name) ==
    IF \E k \in 1..Len(name) : name[k] = "."
    THEN CHOOSE k \in 1..Len(name) :
            name[k] = "." /\ \A j \in (k + 1)..Len(name) : name[j] # "."
    ELSE 0

\* the extension is added to the file name instead of replacing its own
with_extension_appended(path, ext) ==
    Parent(path) \o << path[Len(path)] \o <<".">> \o ext >>

\* Path::with_extension
with_extension(path, ext) ==
    Bind(path[Len(path)], LAMBDA name :
        Parent(path)
        \o << (IF LastDot(name) > 1 THEN SubSeq(name, 1, LastDot(name) - 1) ELSE name)
              \o <<".">> \o ext >>)

\* the lengths of what a failed fs::write may leave in the file it created
PartialLengths(contents) == {Len(contents) \div 2}

\* fs::write(path, contents): [ok, text]
fs_write(text, path, contents) ==
    {[ok |-> TRUE, text |-> MapInsert(text, path, contents)],
     [ok |-> FALSE, text |-> text]}
    \cup {[ok |-> FALSE, text |-> MapInsert(text, path, SubSeq(contents, 1, k))] :
            k \in PartialLengths(contents)}

\* fs::rename(from, to) of an existing file from: [result, text]; a platform
\* whose rename does not replace an existing file reports AlreadyExists
fs_rename(text, from, to) ==
    {[result |-> "Ok", text |-> MapInsert(MapRemove(text, from), to, text[from])],
     [result |-> "Err", text |-> text]}
    \cup (IF to \in DOMAIN text THEN {[result |-> "AlreadyExists", text |-> text]} ELSE {})

\* fs::remove_file(path): [ok, text]
fs_remove_file(text, path) ==
    {[ok |-> FALSE, text |-> text]}
    \cup (IF path \in DOMAIN text THEN {[ok |-> TRUE, text |-> MapRemove(text, path)]}
          ELSE {})

\* the retry of write_atomic after AlreadyExists: [ok, text]
WriteRetry(text, temp_path, path) ==
    UNION { IF ~d.ok THEN {[ok |-> FALSE, text |-> d.text]}
            ELSE {[ok |-> r.result = "Ok", text |-> r.text] :
                    r \in fs_rename(d.text, temp_path, path)} :
            d \in fs_remove_file(text, path) }

\* write_atomic after the temporary file is written: [ok, text]
WriteRename(text, temp_path, path) ==
    UNION { IF r.result = "AlreadyExists" THEN WriteRetry(r.text, temp_path, path)
            ELSE {[ok |-> r.result = "Ok", text |-> r.text]} :
            r \in fs_rename(text, temp_path, path) }

\* the outcomes of write_atomic(path, contents): [ok, text]
write_atomic(text, path, contents) ==
    UNION { IF ~w.ok THEN {w}
            ELSE WriteRename(w.text, with_extension(path, <<"t", "m", "p">>), path) :
            w \in fs_write(text, with_extension(path, <<"t", "m", "p">>), contents) }

(***************************************************************************)
(* unit_cache.rs: the unit cache                                           *)
(*                                                                         *)
(* A unit file on disk is held as the record [name, uses] that             *)
(* determine_unit_name and parse_unit_uses read from its bytes.            *)
(* UnitFileInfo == [name, path, uses]                                      *)
(* UnitCache == [by_path : path -> UnitFileInfo,                           *)
(*               by_name : lowercased name -> sequence of paths]           *)
(***************************************************************************)
\* load_unit_file: [err, info]; err is the io::Error of fs::read, info an
\* Option<UnitFileInfo>
load_unit_file(fs, path) ==
    IF path \in DOMAIN fs.units /\ fs.units[path].readable
    THEN [err |-> FALSE,
          info |-> Some([name |-> fs.units[path].name, path |-> path,
                         uses |-> fs.units[path].uses])]
    ELSE [err |-> TRUE, info |-> None]

\* by_name.entry(key).or_default().push(path)
PushPath(by_name, key, path) ==
    MapInsert(by_name, key,
              IF key \in DOMAIN by_name THEN Append(by_name[key], path) ELSE <<path>>)

\* insert_unit that keys the bucket by the name as the unit spells it
insert_unit_spelled_key(cache, path, info) ==
    [by_path |-> MapInsert(cache.by_path, path, info),
     by_name |-> PushPath(cache.by_name, info.name, path)]

insert_unit(cache, path, info) ==
    [by_path |-> MapInsert(cache.by_path, path, info),
     by_name |-> PushPath(cache.by_name, to_ascii_lowercase(info.name), path)]

EmptyCache == [by_path |-> <<>>, by_name |-> <<>>]

\* build_unit_cache, the loop over the paths: [err, cache]; the `?` returns
\* the io::Error of load_unit_file and the cache built so far is dropped
RECURSIVE build_unit_cache_from(_, _, _)
build_unit_cache_from(fs, paths, cache) ==
    IF paths = <<>> THEN [err |-> FALSE, cache |-> cache]
    ELSE Bind(canonicalize_if_exists(fs, Head(paths)), LAMBDA canonical :
            IF canonical \in DOMAIN cache.by_path
            THEN build_unit_cache_from(fs, Tail(paths), cache)
            ELSE Bind(load_unit_file(fs, canonical), LAMBDA loaded :
                    IF loaded.err THEN [err |-> TRUE, cache |-> EmptyCache]
                    ELSE IF IsSome(loaded.info)
                    THEN build_unit_cache_from(fs, Tail(paths),
                             insert_unit(cache, canonical, Unwrap(loaded.info)))
                    ELSE build_unit_cache_from(fs, Tail(paths), cache)))

build_unit_cache(fs, paths) == build_unit_cache_from(fs, paths, EmptyCache)

\* get_or_load: [err, cache, info |-> Option<UnitFileInfo>]
get_or_load(fs, cache, path) ==
    Bind(canonicalize_if_exists(fs, path), LAMBDA canonical :
        IF canonical \in DOMAIN cache.by_path
        THEN [err |-> FALSE, cache |-> cache, info |-> Some(cache.by_path[canonical])]
        ELSE Bind(load_unit_file(fs, canonical), LAMBDA loaded :
                IF loaded.err THEN [err |-> TRUE, cache |-> cache, info |-> None]
                ELSE IF IsSome(loaded.info)
                THEN [err |-> FALSE,
                      cache |-> insert_unit(cache, canonical, Unwrap(loaded.info)),
                      info |-> loaded.info]
                ELSE [err |-> FALSE, cache |-> cache, info |-> None]))

(***************************************************************************)
(* dpr_edit.rs: name resolution and the project map                        *)
(***************************************************************************)
\* the first path of the bucket is taken, whatever the length of the bucket
ResolveIn_first_path(cache, key, source) ==
    IF key \notin DOMAIN cache.by_name THEN [kind |-> "NotFound"]
    ELSE [kind |-> "Unique", path |-> cache.by_name[key][1], source |-> source]

\* the bucket of the name in the cache: Unique, Ambiguous or NotFound
ResolveIn(cache, key, source) ==
    IF key \notin DOMAIN cache.by_name THEN [kind |-> "NotFound"]
    ELSE IF Len(cache.by_name[key]) > 1
    THEN [kind |-> "Ambiguous", count |-> Len(cache.by_name[key]), source |-> source]
    ELSE [kind |-> "Unique", path |-> cache.by_name[key][1], source |-> source]

\* resolve_by_name that turns to the fallback cache when the project bucket
\* is ambiguous
resolve_by_name_past_ambiguity(project_cache, delphi_cache, unit_name) ==
    Bind(to_ascii_lowercase(unit_name), LAMBDA key :
        IF key \in DOMAIN project_cache.by_name /\ Len(project_cache.by_name[key]) = 1
        THEN ResolveIn(project_cache, key, "Project")
        ELSE IF IsSome(delphi_cache)
        THEN ResolveIn(Unwrap(delphi_cache), key, "Delphi")
        ELSE [kind |-> "NotFound"])

\* delphi_cache is an Option<UnitCache>
resolve_by_name(project_cache, delphi_cache, unit_name) ==
    Bind(to_ascii_lowercase(unit_name), LAMBDA key :
        IF key \in DOMAIN project_cache.by_name
        THEN ResolveIn(project_cache, key, "Project")
        ELSE IF IsSome(delphi_cache)
        THEN ResolveIn(Unwrap(delphi_cache), key, "Delphi")
        ELSE [kind |-> "NotFound"])

source_label(source) == IF source = "Project" THEN "project" ELSE "--delphi-path"

\* in-paths of the model are relative (candidate.is_absolute() is false)
resolve_dpr_unit_path(fs, dpr_path, raw) ==
    canonicalize_if_exists(fs, Parent(dpr_path) \o PathFromText(raw))

\* insert_project_entry that replaces the path of a name already bound
insert_project_entry_last_wins(map, entry, resolved, dpr_path, warnings) ==
    Bind(to_ascii_lowercase(entry.name), LAMBDA key :
        IF key \in DOMAIN map
        THEN [map |-> [map EXCEPT ![key] = resolved],
              warnings |-> IF map[key] # resolved
                           THEN Append(warnings, <<"duplicate unit name", entry.name,
                                                   dpr_path>>)
                           ELSE warnings]
        ELSE [map |-> MapInsert(map, key, resolved), warnings |-> warnings])

\* [map, warnings]
insert_project_entry(map, entry, resolved, dpr_path, warnings) ==
    Bind(to_ascii_lowercase(entry.name), LAMBDA key :
        IF key \in DOMAIN map
        THEN [map |-> map,
              warnings |-> IF map[key] # resolved
                           THEN Append(warnings, <<"duplicate unit name", entry.name,
                                                   dpr_path>>)
                           ELSE warnings]
        ELSE [map |-> MapInsert(map, key, resolved), warnings |-> warnings])

\* the entry has no in-path: [map, warnings]
ProjectEntryByName(entry, dpr_path, project_cache, delphi_cache, map, warnings) ==
    Bind(resolve_by_name(project_cache, delphi_cache, entry.name), LAMBDA r :
        CASE r.kind = "NotFound" -> [map |-> map, warnings |-> warnings]
          [] r.kind = "Unique" ->
                insert_project_entry(map, entry, r.path, dpr_path,
                    IF r.source = "Project"
                    THEN Append(warnings, <<"missing in-path (resolved via scan)",
                                            entry.name, dpr_path>>)
                    ELSE warnings)
          [] r.kind = "Ambiguous" ->
                [map |-> map,
                 warnings |-> Append(warnings, <<"missing in-path (ambiguous)", entry.name,
                                                 dpr_path, r.count, source_label(r.source)>>)])

\* the in-path of the entry is not a file: [map, warnings]
ProjectEntryFallback(entry, dpr_path, project_cache, delphi_cache, map, warnings) ==
    Bind(resolve_by_name(project_cache, delphi_cache, entry.name), LAMBDA r :
        CASE r.kind = "Unique" ->
                insert_project_entry(map, entry, r.path, dpr_path, warnings)
          [] r.kind = "Ambiguous" ->
                [map |-> map,
                 warnings |-> Append(warnings, <<"unit is ambiguous", entry.name, dpr_path,
                                                 r.count, source_label(r.source)>>)]
          [] r.kind = "NotFound" -> [map |-> map, warnings |-> warnings])

\* the body of the loop of build_project_map for one entry: [map, warnings]
ProjectEntry(fs, entry, dpr_path, project_cache, delphi_cache, map, warnings) ==
    IF IsNone(entry.in_path)
    THEN ProjectEntryByName(entry, dpr_path, project_cache, delphi_cache, map, warnings)
    ELSE Bind(resolve_dpr_unit_path(fs, dpr_path, Unwrap(entry.in_path)), LAMBDA resolved :
            IF ~is_file(fs, resolved)
            THEN ProjectEntryFallback(entry, dpr_path, project_cache, delphi_cache, map,
                     Append(warnings, <<"dpr uses path not found", entry.name, dpr_path,
                                        resolved>>))
            ELSE insert_project_entry(map, entry, resolved, dpr_path, warnings))

RECURSIVE build_project_map_from(_, _, _, _, _, _, _)
build_project_map_from(fs, dpr_path, entries, project_cache, delphi_cache, map, warnings) ==
    IF entries = <<>> THEN [map |-> map, warnings |-> warnings]
    ELSE Bind(ProjectEntry(fs, Head(entries), dpr_path, project_cache, delphi_cache, map,
                           warnings),
              LAMBDA r : build_project_map_from(fs, dpr_path, Tail(entries), project_cache,
                                                delphi_cache, r.map, r.warnings))

\* [map, warnings]; map is a function from lowercased names to paths
build_project_map(fs, dpr_path, list, project_cache, delphi_cache, warnings) ==
    build_project_map_from(fs, dpr_path, list.entries, project_cache, delphi_cache, <<>>,
                           warnings)

has_unit_path(project_cache, delphi_cache, path) ==
    \/ path \in DOMAIN project_cache.by_path
    \/ IsSome(delphi_cache) /\ path \in DOMAIN Unwrap(delphi_cache).by_path

\* Option<UnitFileInfo>
lookup_unit_info(project_cache, delphi_cache, path) ==
    IF path \in DOMAIN project_cache.by_path THEN Some(project_cache.by_path[path])
    ELSE IF IsSome(delphi_cache) /\ path \in DOMAIN Unwrap(delphi_cache).by_path
    THEN Some(Unwrap(delphi_cache).by_path[path])
    ELSE None

\* [path |-> Option<path>, warnings]
resolve_dep_path(project_map, project_cache, delphi_cache, dep_name, source_path, warnings) ==
    Bind(to_ascii_lowercase(dep_name), LAMBDA dep_key :
        IF dep_key \in DOMAIN project_map
        THEN [path |-> Some(project_map[dep_key]), warnings |-> warnings]
        ELSE Bind(resolve_by_name(project_cache, delphi_cache, dep_name), LAMBDA r :
            CASE r.kind = "Unique" -> [path |-> Some(r.path), warnings |-> warnings]
              [] r.kind = "Ambiguous" ->
                    [path |-> None,
                     warnings |-> Append(warnings, <<"ambiguous unit", dep_name, source_path,
                                                     r.count, source_label(r.source)>>)]
              [] r.kind = "NotFound" -> [path |-> None, warnings |-> warnings]))

\* [err, uses |-> Option<sequence of names>]
load_unit_uses(fs, project_cache, delphi_cache, unit_path) ==
    Bind(canonicalize_if_exists(fs, unit_path), LAMBDA canonical :
        IF canonical \in DOMAIN project_cache.by_path
        THEN [err |-> FALSE, uses |-> Some(project_cache.by_path[canonical].uses)]
        ELSE IF IsSome(delphi_cache) /\ canonical \in DOMAIN Unwrap(delphi_cache).by_path
        THEN [err |-> FALSE, uses |-> Some(Unwrap(delphi_cache).by_path[canonical].uses)]
        ELSE Bind(load_unit_file(fs, canonical), LAMBDA loaded :
                [err |-> loaded.err,
                 uses |-> IF IsSome(loaded.info) THEN Some(Unwrap(loaded.info).uses)
                          ELSE None]))

(***************************************************************************)
(* dpr_edit.rs: the dependents of the new unit                             *)
(*                                                                         *)
(* The graph under construction is [ids, rev, direct, queue, warnings,     *)
(* err]: ids lists the paths in the order their ids were given (the id of  *)
(* ids[k] is k), rev[k] lists the ids of the units that use the unit k,    *)
(* err is the io::Error that the ? operator returns to the caller.         *)
(***************************************************************************)
\* the elements of a set in some order: an iteration over a HashMap
RECURSIVE SetToSeq(_)
SetToSeq(S) ==
    IF S = {} THEN <<>>
    ELSE Bind(CHOOSE x \in S : TRUE, LAMBDA x : <<x>> \o SetToSeq(S \ {x}))

\* id_by_path.get(path), for a path that has an id
IdOf(ids, path) == CHOOSE k \in 1..Len(ids) : ids[k] = path

\* the unit at dep_path is put on the queue whether it has an id or not
AddEdge_requeue(g, dep_path, source_id) ==
    IF IsNone(dep_path) THEN g
    ELSE IF Unwrap(dep_path) \in Range(g.ids)
    THEN [g EXCEPT !.rev[IdOf(g.ids, Unwrap(dep_path))] = Append(@, source_id),
                   !.queue = Append(@, Unwrap(dep_path))]
    ELSE [g EXCEPT !.ids = Append(@, Unwrap(dep_path)),
                   !.rev = Append(@, <<source_id>>),
                   !.direct = Append(@, FALSE),
                   !.queue = Append(@, Unwrap(dep_path))]

\* the edge from the unit source_id to the unit at dep_path (an Option)
AddEdge(g, dep_path, source_id) ==
    IF IsNone(dep_path) THEN g
    ELSE IF Unwrap(dep_path) \in Range(g.ids)
    THEN [g EXCEPT !.rev[IdOf(g.ids, Unwrap(dep_path))] = Append(@, source_id)]
    ELSE [g EXCEPT !.ids = Append(@, Unwrap(dep_path)),
                   !.rev = Append(@, <<source_id>>),
                   !.direct = Append(@, FALSE),
                   !.queue = Append(@, Unwrap(dep_path))]

\* the loop over the uses, the name of the new unit compared byte for byte
RECURSIVE DependentsUses_case_sensitive(_, _, _, _, _, _, _, _)
DependentsUses_case_sensitive(project_map, project_cache, delphi_cache, new_unit, unit_path, source_id, uses, g) ==
    IF uses = <<>> THEN g
    ELSE IF Head(uses) = new_unit.name
    THEN DependentsUses_case_sensitive(project_map, project_cache, delphi_cache, new_unit,
                        unit_path, source_id, Tail(uses),
                        [g EXCEPT !.direct[source_id] = TRUE])
    ELSE IF eq_ignore_ascii_case(Head(uses), new_unit.name)
    THEN DependentsUses_case_sensitive(project_map, project_cache, delphi_cache, new_unit,
                        unit_path, source_id, Tail(uses), g)
    ELSE Bind(resolve_dep_path(project_map, project_cache, delphi_cache, Head(uses),
                               unit_path, g.warnings),
              LAMBDA r :
                DependentsUses_case_sensitive(project_map, project_cache, delphi_cache,
                               new_unit, unit_path, source_id, Tail(uses),
                               AddEdge([g EXCEPT !.warnings = r.warnings], r.path,
                                       source_id)))

\* the loop over the uses of the unit source_id
RECURSIVE DependentsUses(_, _, _, _, _, _, _, _)
DependentsUses(project_map, project_cache, delphi_cache, new_unit, unit_path, source_id, uses, g) ==
    IF uses = <<>> THEN g
    ELSE IF eq_ignore_ascii_case(Head(uses), new_unit.name)
    THEN DependentsUses(project_map, project_cache, delphi_cache, new_unit, unit_path,
                        source_id, Tail(uses), [g EXCEPT !.direct[source_id] = TRUE])
    ELSE Bind(resolve_dep_path(project_map, project_cache, delphi_cache, Head(uses),
                               unit_path, g.warnings),
              LAMBDA r :
                DependentsUses(project_map, project_cache, delphi_cache, new_unit, unit_path,
                               source_id, Tail(uses),
                               AddEdge([g EXCEPT !.warnings = r.warnings], r.path,
                                       source_id)))

\* the loop over the queue of unit paths
RECURSIVE DependentsLoop(_, _, _, _, _, _)
DependentsLoop(fs, project_map, project_cache, delphi_cache, new_unit, g) ==
    IF g.queue = <<>> THEN g
    ELSE Bind(load_unit_uses(fs, project_cache, delphi_cache, Head(g.queue)), LAMBDA l :
            IF l.err THEN [g EXCEPT !.err = TRUE]
            ELSE IF IsNone(l.uses)
            THEN DependentsLoop(fs, project_map, project_cache, delphi_cache, new_unit,
                     [g EXCEPT !.queue = Tail(@),
                               !.warnings = Append(@, <<"failed to read unit",
                                                        Head(g.queue)>>)])
            ELSE DependentsLoop(fs, project_map, project_cache, delphi_cache, new_unit,
                     DependentsUses(project_map, project_cache, delphi_cache, new_unit,
                                    Head(g.queue), IdOf(g.ids, Head(g.queue)),
                                    Unwrap(l.uses), [g EXCEPT !.queue = Tail(@)])))

\* no propagation: only the direct users are marked
Propagate_direct_only(rev, dependents, queue, nexts) == dependents

\* the propagation of the mark along the reverse edges
RECURSIVE Propagate(_, _, _, _)
Propagate(rev, dependents, queue, nexts) ==
    IF nexts # <<>>
    THEN IF ~dependents[Head(nexts)]
         THEN Propagate(rev, [dependents EXCEPT ![Head(nexts)] = TRUE],
                        Append(queue, Head(nexts)), Tail(nexts))
         ELSE Propagate(rev, dependents, queue, Tail(nexts))
    ELSE IF queue # <<>>
    THEN Propagate(rev, dependents, Tail(queue), rev[Head(queue)])
    ELSE dependents

\* the ids of the direct users, in the order of their ids
DirectIds(direct) == SelectSeq([k \in 1..Len(direct) |-> k], LAMBDA k : direct[k])

\* ProjectDependents of the graph g, with the warnings and the error of the walk
DependentsOf(g) ==
    [err |-> g.err,
     dependents |-> IF g.err THEN <<>>
                    ELSE Propagate(g.rev, g.direct, DirectIds(g.direct), <<>>),
     direct |-> g.direct,
     id_by_path |-> g.ids,
     warnings |-> g.warnings]

\* the vector of n elements x that the pushes of the first loop build
RECURSIVE Repeat(_, _)
Repeat(x, n) == IF n = 0 THEN <<>> ELSE Append(Repeat(x, n - 1), x)

\* [err, dependents, direct, id_by_path, warnings]
compute_project_dependents(fs, project_cache, delphi_cache, project_map, new_unit, warnings) ==
    Bind(SetToSeq({project_map[k] : k \in DOMAIN project_map}), LAMBDA paths :
        DependentsOf(DependentsLoop(fs, project_map, project_cache, delphi_cache, new_unit,
            [ids |-> paths,
             rev |-> Repeat(<<>>, Len(paths)),
             direct |-> Repeat(FALSE, Len(paths)),
             queue |-> paths,
             warnings |-> warnings,
             err |-> FALSE])))

\* the entry is bound by the project map to a unit marked in marks
EntryMarked(entry, project_map, dependents, marks) ==
    /\ to_ascii_lowercase(entry.name) \in DOMAIN project_map
    /\ project_map[to_ascii_lowercase(entry.name)] \in Range(dependents.id_by_path)
    /\ marks[IdOf(dependents.id_by_path, project_map[to_ascii_lowercase(entry.name)])]

\* the decision of update_dpr_files: some declared entry is a dependent
needs_new_unit_of(list, project_map, dependents) ==
    \E k \in 1..Len(list.entries) :
        EntryMarked(list.entries[k], project_map, dependents, dependents.dependents)

\* the first dependent among the entries, direct or transitive
find_direct_introducer_index_any_dependent(list, project_map, dependents) ==
    Bind({ k \in 1..Len(list.entries) :
             /\ ~list.entries[k].from_include
             /\ EntryMarked(list.entries[k], project_map, dependents, dependents.dependents) },
         LAMBDA found :
            IF found = {} THEN None
            ELSE Some((CHOOSE k \in found : \A j \in found : k <= j) - 1))

\* Option<usize>: the 0-based index of the first direct user among the entries
find_direct_introducer_index(list, project_map, dependents) ==
    Bind({ k \in 1..Len(list.entries) :
             /\ ~list.entries[k].from_include
             /\ EntryMarked(list.entries[k], project_map, dependents, dependents.direct) },
         LAMBDA found :
            IF found = {} THEN None
            ELSE Some((CHOOSE k \in found : \A j \in found : k <= j) - 1))

(***************************************************************************)
(* dpr_edit.rs: the dependencies the new unit introduces                   *)
(*                                                                         *)
(* The walk is [queue, seen_paths, seen_names, introduced, warnings, err]. *)
(***************************************************************************)
\* the dependency is recorded, and its own uses are not walked
IntroduceDep_not_walked(w, dep, dep_path, root_path) ==
    IF dep_path = root_path THEN w
    ELSE IF to_ascii_lowercase(dep) \in w.seen_names THEN w
    ELSE [w EXCEPT !.seen_names = @ \cup {to_ascii_lowercase(dep)},
                   !.introduced = Append(@, [name |-> dep, path |-> dep_path,
                                             uses |-> <<>>])]

\* the rest of the loop body for a dependency resolved to dep_path
IntroduceDep(w, dep, dep_path, root_path) ==
    IF dep_path = root_path THEN w
    ELSE Bind([w EXCEPT !.seen_paths = @ \cup {dep_path},
                        !.queue = IF dep_path \in w.seen_paths THEN @
                                  ELSE Append(@, dep_path)],
              LAMBDA w1 :
                IF to_ascii_lowercase(dep) \in w1.seen_names THEN w1
                ELSE [w1 EXCEPT !.seen_names = @ \cup {to_ascii_lowercase(dep)},
                                !.introduced = Append(@, [name |-> dep, path |-> dep_path,
                                                          uses |-> <<>>])])

\* the loop over the uses of the unit at unit_path
RECURSIVE IntroducedUses(_, _, _, _, _, _, _, _, _)
IntroducedUses(fs, project_map, project_cache, delphi_cache, new_unit, root_path, unit_path, uses, w) ==
    IF uses = <<>> THEN w
    ELSE IF eq_ignore_ascii_case(Head(uses), new_unit.name)
    THEN IntroducedUses(fs, project_map, project_cache, delphi_cache, new_unit, root_path,
                        unit_path, Tail(uses), w)
    ELSE Bind(resolve_dep_path(project_map, project_cache, delphi_cache, Head(uses),
                               unit_path, w.warnings),
              LAMBDA r :
                IntroducedUses(fs, project_map, project_cache, delphi_cache, new_unit,
                    root_path, unit_path, Tail(uses),
                    IF IsNone(r.path) THEN [w EXCEPT !.warnings = r.warnings]
                    ELSE IntroduceDep([w EXCEPT !.warnings = r.warnings], Head(uses),
                                      canonicalize_if_exists(fs, Unwrap(r.path)),
                                      root_path)))

\* the loop over the queue of unit paths
RECURSIVE IntroducedLoop(_, _, _, _, _, _, _)
IntroducedLoop(fs, project_map, project_cache, delphi_cache, new_unit, root_path, w) ==
    IF w.queue = <<>> THEN w
    ELSE Bind(load_unit_uses(fs, project_cache, delphi_cache, Head(w.queue)), LAMBDA l :
            IF l.err THEN [w EXCEPT !.err = TRUE]
            ELSE IF IsNone(l.uses)
            THEN IntroducedLoop(fs, project_map, project_cache, delphi_cache, new_unit,
                     root_path,
                     [w EXCEPT !.queue = Tail(@),
                               !.warnings = Append(@, <<"failed to read unit",
                                                        Head(w.queue)>>)])
            ELSE IntroducedLoop(fs, project_map, project_cache, delphi_cache, new_unit,
                     root_path,
                     IntroducedUses(fs, project_map, project_cache, delphi_cache, new_unit,
                                    root_path, Head(w.queue), Unwrap(l.uses),
                                    [w EXCEPT !.queue = Tail(@)])))

\* [err, introduced, warnings]
collect_introduced_dependencies(fs, project_cache, delphi_cache, project_map, new_unit, warnings) ==
    Bind(canonicalize_if_exists(fs, new_unit.path), LAMBDA root_path :
    Bind(IntroducedLoop(fs, project_map, project_cache, delphi_cache, new_unit, root_path,
             [queue |-> <<root_path>>,
              seen_paths |-> {root_path},
              seen_names |-> {},
              introduced |-> <<>>,
              warnings |-> warnings,
              err |-> FALSE]),
         LAMBDA w : [err |-> w.err, introduced |-> w.introduced, warnings |-> w.warnings]))

(***************************************************************************)
(* dpr_edit.rs: the units a .dpr is missing (fix-dpr)                      *)
(***************************************************************************)
\* [roots, warnings]
RECURSIVE collect_fix_root_paths_from(_, _, _, _, _, _, _, _)
collect_fix_root_paths_from(fs, dpr_path, entries, project_map, project_cache, delphi_cache, roots, warnings) ==
    IF entries = <<>> THEN [roots |-> roots, warnings |-> warnings]
    ELSE IF to_ascii_lowercase(Head(entries).name) \notin DOMAIN project_map
    THEN collect_fix_root_paths_from(fs, dpr_path, Tail(entries), project_map, project_cache,
                                     delphi_cache, roots, warnings)
    ELSE Bind(canonicalize_if_exists(fs, project_map[to_ascii_lowercase(Head(entries).name)]),
              LAMBDA canonical :
                IF ~has_unit_path(project_cache, delphi_cache, canonical)
                THEN collect_fix_root_paths_from(fs, dpr_path, Tail(entries), project_map,
                         project_cache, delphi_cache, roots,
                         Append(warnings, <<"resolved outside known unit caches",
                                            Head(entries).name, dpr_path>>))
                ELSE collect_fix_root_paths_from(fs, dpr_path, Tail(entries), project_map,
                         project_cache, delphi_cache,
                         IF canonical \in Range(roots) THEN roots
                         ELSE Append(roots, canonical),
                         warnings))

collect_fix_root_paths(fs, dpr_path, list, project_map, project_cache, delphi_cache, warnings) ==
    collect_fix_root_paths_from(fs, dpr_path, list.entries, project_map, project_cache,
                                delphi_cache, <<>>, warnings)

\* the missing unit is recorded, and its own uses are not walked
MissingDep_not_walked(w, dep, dep_path, existing_names, project_cache, delphi_cache) ==
    IF ~has_unit_path(project_cache, delphi_cache, dep_path) THEN w
    ELSE IF to_ascii_lowercase(dep) \in existing_names THEN w
    ELSE IF to_ascii_lowercase(dep) \in w.missing_names THEN w
    ELSE [w EXCEPT !.missing_names = @ \cup {to_ascii_lowercase(dep)},
                   !.missing_units =
                       @ \o lookup_unit_info(project_cache, delphi_cache, dep_path)]

\* the walk is [queue, seen_paths, missing_names, missing_units, warnings];
\* the rest of the loop body for a dependency resolved to dep_path
MissingDep(w, dep, dep_path, existing_names, project_cache, delphi_cache) ==
    IF ~has_unit_path(project_cache, delphi_cache, dep_path) THEN w
    ELSE Bind([w EXCEPT !.seen_paths = @ \cup {dep_path},
                        !.queue = IF dep_path \in w.seen_paths THEN @
                                  ELSE Append(@, dep_path)],
              LAMBDA w1 :
                IF to_ascii_lowercase(dep) \in existing_names THEN w1
                ELSE IF to_ascii_lowercase(dep) \in w1.missing_names THEN w1
                ELSE [w1 EXCEPT
                        !.missing_names = @ \cup {to_ascii_lowercase(dep)},
                        !.missing_units =
                            @ \o lookup_unit_info(project_cache, delphi_cache, dep_path)])

\* the loop over the uses of the unit at unit_path
RECURSIVE MissingUses(_, _, _, _, _, _, _)
MissingUses(fs, existing_names, project_cache, delphi_cache, unit_path, uses, w) ==
    IF uses = <<>> THEN w
    ELSE Bind(resolve_by_name(project_cache, delphi_cache, Head(uses)), LAMBDA r :
        CASE r.kind = "Unique" ->
                MissingUses(fs, existing_names, project_cache, delphi_cache, unit_path,
                    Tail(uses),
                    MissingDep(w, Head(uses), canonicalize_if_exists(fs, r.path),
                               existing_names, project_cache, delphi_cache))
          [] r.kind = "Ambiguous" ->
                MissingUses(fs, existing_names, project_cache, delphi_cache, unit_path,
                    Tail(uses),
                    [w EXCEPT !.warnings = Append(@, <<"ambiguous unit", Head(uses),
                                                       unit_path, r.count,
                                                       source_label(r.source)>>)])
          [] r.kind = "NotFound" ->
                MissingUses(fs, existing_names, project_cache, delphi_cache, unit_path,
                    Tail(uses), w))

\* the loop over the queue of unit paths
RECURSIVE MissingLoop(_, _, _, _, _)
MissingLoop(fs, existing_names, project_cache, delphi_cache, w) ==
    IF w.queue = <<>> THEN w
    ELSE Bind(lookup_unit_info(project_cache, delphi_cache, Head(w.queue)), LAMBDA info :
            IF IsNone(info)
            THEN MissingLoop(fs, existing_names, project_cache, delphi_cache,
                             [w EXCEPT !.queue = Tail(@)])
            ELSE MissingLoop(fs, existing_names, project_cache, delphi_cache,
                     MissingUses(fs, existing_names, project_cache, delphi_cache,
                                 Head(w.queue), Unwrap(info).uses,
                                 [w EXCEPT !.queue = Tail(@)])))

\* [missing_units, warnings]; root_paths holds each path once
collect_missing_dpr_dependencies(fs, root_paths, existing_names, project_cache, delphi_cache, warnings) ==
    Bind(MissingLoop(fs, existing_names, project_cache, delphi_cache,
             [queue |-> root_paths,
              seen_paths |-> Range(root_paths),
              missing_names |-> {},
              missing_units |-> <<>>,
              warnings |-> warnings]),
         LAMBDA w : [missing_units |-> w.missing_units, warnings |-> w.warnings])

\* [err, list |-> Option<UsesList>, bytes, warnings]
reload_dpr_state(fs, path, warnings) ==
    Bind(fs_read(fs, path), LAMBDA data :
        IF IsNone(data)
        THEN [err |-> TRUE, list |-> None, bytes |-> <<>>, warnings |-> warnings]
        ELSE Bind(parse_dpr_uses(fs, path, Unwrap(data), warnings), LAMBDA p :
                [err |-> FALSE, list |-> p.list, bytes |-> Unwrap(data),
                 warnings |-> p.warnings]))

(***************************************************************************)
(* dpr_edit.rs: update_dpr_files and fix_dpr_file, up to the first write   *)
(*                                                                         *)
(* DprUpdateSummary == [scanned, updated, updated_paths, warnings,         *)
(*                      failures]                                          *)
(***************************************************************************)
EmptySummary(scanned) ==
    [scanned |-> scanned, updated |-> 0, updated_paths |-> <<>>, warnings |-> <<>>,
     failures |-> 0]

\* summary.warnings.push(warning); summary.failures += 1
Failure(sum, warning) ==
    [sum EXCEPT !.warnings = Append(@, warning), !.failures = @ + 1]

\* the names are compared byte for byte
HasEntry_exact(list, name) ==
    \E k \in 1..Len(list.entries) : list.entries[k].name = name

\* list.entries.iter().any(|entry| entry.name.eq_ignore_ascii_case(name))
HasEntry(list, name) ==
    \E k \in 1..Len(list.entries) : eq_ignore_ascii_case(list.entries[k].name, name)

\* list.entries.iter().position(|entry| !entry.from_include && entry.name
\* .eq_ignore_ascii_case(name)), for an Option name: an Option<usize>
PositionOf(list, name) ==
    IF IsNone(name) THEN None
    ELSE Bind({ k \in 1..Len(list.entries) :
                  /\ ~list.entries[k].from_include
                  /\ eq_ignore_ascii_case(list.entries[k].name, Unwrap(name)) },
              LAMBDA found :
                IF found = {} THEN None
                ELSE Some((CHOOSE k \in found : \A j \in found : k <= j) - 1))

\* the locals of one iteration of 'dpr_loop, before anything is read
NoLocals(idx) ==
    [idx |-> idx, current_bytes |-> <<>>, current_list |-> None, project_map |-> <<>>,
     has_new_unit |-> FALSE, needs_new_unit |-> FALSE, insert_after |-> None,
     dpr_updated |-> FALSE, last_inserted_name |-> None, pending |-> <<>>]

\* the outcome of the first part of an iteration: next says where it goes on
ScanOutcome(next, sum, bytes, list, project_map, has_new_unit, insert_after) ==
    [next |-> next, summary |-> sum, current_bytes |-> bytes, current_list |-> list,
     project_map |-> project_map, has_new_unit |-> has_new_unit,
     insert_after |-> insert_after]

\* the iteration ends before the .dpr is parsed and its map is built
ScanEnds(next, sum) == ScanOutcome(next, sum, <<>>, None, <<>>, FALSE, None)

\* update_dpr_files for a .dpr that does not declare the new unit and whose
\* project map is not empty: the decision
UpdateDecide(fs, bytes, list, project_cache, delphi_cache, project_map, new_unit, sum) ==
    Bind(compute_project_dependents(fs, project_cache, delphi_cache, project_map, new_unit,
                                    sum.warnings),
         LAMBDA dependents :
            IF dependents.err THEN ScanEnds("abort", sum)
            ELSE IF ~needs_new_unit_of(list, project_map, dependents)
            THEN ScanOutcome("continue", [sum EXCEPT !.warnings = dependents.warnings],
                             bytes, Some(list), project_map, FALSE, None)
            ELSE ScanOutcome("insert_new", [sum EXCEPT !.warnings = dependents.warnings],
                             bytes, Some(list), project_map, FALSE,
                             find_direct_introducer_index(list, project_map, dependents)))

\* update_dpr_files for a parsed .dpr, from build_project_map on
UpdateParsed(fs, path, bytes, list, project_cache, delphi_cache, new_unit, sum) ==
    Bind(build_project_map(fs, path, list, project_cache, delphi_cache, sum.warnings),
         LAMBDA m :
            IF HasEntry(list, new_unit.name)
            THEN ScanOutcome("has_new_unit", [sum EXCEPT !.warnings = m.warnings], bytes,
                             Some(list), m.map, TRUE, None)
            ELSE IF DOMAIN m.map = {}
            THEN ScanOutcome("continue", [sum EXCEPT !.warnings = m.warnings], bytes,
                             Some(list), m.map, FALSE, None)
            ELSE UpdateDecide(fs, bytes, list, project_cache, delphi_cache, m.map, new_unit,
                              [sum EXCEPT !.warnings = m.warnings]))

\* one iteration of 'dpr_loop of update_dpr_files, up to the call of
\* insert_new_unit
UpdateScan(fs, path, project_cache, delphi_cache, new_unit, sum) ==
    Bind(fs_read(fs, path), LAMBDA data :
        IF IsNone(data)
        THEN ScanEnds("continue", Failure(sum, <<"failed to read dpr", path>>))
        ELSE Bind(parse_dpr_uses(fs, path, Unwrap(data), sum.warnings), LAMBDA p :
            IF IsNone(p.list)
            THEN ScanEnds("continue",
                          Failure([sum EXCEPT !.warnings = p.warnings],
                                  <<"no uses list found", path>>))
            ELSE UpdateParsed(fs, path, Unwrap(data), Unwrap(p.list), project_cache,
                              delphi_cache, new_unit,
                              [sum EXCEPT !.warnings = p.warnings])))

\* existing_names of fix_dpr_file
ExistingNames(list) ==
    { to_ascii_lowercase(list.entries[k].name) : k \in 1..Len(list.entries) }

\* fix_dpr_file for a parsed .dpr: [next, summary, current_bytes, current_list, pending]
FixParsed(fs, dpr_path, bytes, list, project_cache, delphi_cache, sum) ==
    Bind(build_project_map(fs, dpr_path, list, project_cache, delphi_cache, sum.warnings),
         LAMBDA m :
    Bind(collect_fix_root_paths(fs, dpr_path, list, m.map, project_cache, delphi_cache,
                                m.warnings),
         LAMBDA roots :
            IF roots.roots = <<>>
            THEN [next |-> "return", summary |-> [sum EXCEPT !.warnings = roots.warnings],
                  current_bytes |-> bytes, current_list |-> Some(list), pending |-> <<>>]
            ELSE Bind(collect_missing_dpr_dependencies(fs, roots.roots, ExistingNames(list),
                          project_cache, delphi_cache, roots.warnings),
                      LAMBDA missing :
                        [next |-> IF missing.missing_units = <<>> THEN "return"
                                  ELSE "insert",
                         summary |-> [sum EXCEPT !.warnings = missing.warnings],
                         current_bytes |-> bytes, current_list |-> Some(list),
                         pending |-> missing.missing_units])))

\* fix_dpr_file up to the loop over the missing units; dpr_path is canonical
FixScan(fs, dpr_path, project_cache, delphi_cache, sum) ==
    Bind(fs_read(fs, dpr_path), LAMBDA data :
        IF IsNone(data)
        THEN [next |-> "return", summary |-> Failure(sum, <<"failed to read dpr", dpr_path>>),
              current_bytes |-> <<>>, current_list |-> None, pending |-> <<>>]
        ELSE Bind(parse_dpr_uses(fs, dpr_path, Unwrap(data), sum.warnings), LAMBDA p :
            IF IsNone(p.list)
            THEN [next |-> "return",
                  summary |-> Failure([sum EXCEPT !.warnings = p.warnings],
                                      <<"no uses list found", dpr_path>>),
                  current_bytes |-> <<>>, current_list |-> None, pending |-> <<>>]
            ELSE FixParsed(fs, dpr_path, Unwrap(data), Unwrap(p.list), project_cache,
                           delphi_cache, [sum EXCEPT !.warnings = p.warnings])))

\* the buffer and the list of before the write are kept
Reload_kept(fs, path, sum) ==
    [ok |-> TRUE, summary |-> sum, current_bytes |-> loc.current_bytes,
     current_list |-> loc.current_list]

\* what follows a successful write by insert_new_unit: reload_dpr_state,
\* [ok, summary, current_bytes, current_list]
Reload(fs, path, sum) ==
    Bind(reload_dpr_state(fs, path, sum.warnings), LAMBDA r :
        IF r.err
        THEN [ok |-> FALSE, summary |-> Failure(sum, <<"failed to read dpr", path>>),
              current_bytes |-> <<>>, current_list |-> None]
        ELSE IF IsNone(r.list)
        THEN [ok |-> FALSE,
              summary |-> Failure([sum EXCEPT !.warnings = r.warnings],
                                  <<"no uses list found", path>>),
              current_bytes |-> <<>>, current_list |-> None]
        ELSE [ok |-> TRUE, summary |-> [sum EXCEPT !.warnings = r.warnings],
              current_bytes |-> r.bytes, current_list |-> r.list])

(***************************************************************************)
(* The world of the model: names, paths and .dpr texts                     *)
(***************************************************************************)
\* the file system an operation sees
FS == [text |-> files, units |-> disk]

Ext(stem, ext) == stem \o <<".">> \o ext
PasExt == <<"p", "a", "s">>

RootDir == << <<"r">> >>
SubDir == << <<"r">>, <<"s">> >>
VendorDir == << <<"v">> >>
DprPath == RootDir \o << Ext(<<"p">>, <<"d", "p", "r">>) >>
IncPath == RootDir \o << Ext(<<"x">>, <<"i", "n", "c">>) >>
IncText == Ext(<<"x">>, <<"i", "n", "c">>)
Inc2Path == RootDir \o << Ext(<<"y">>, <<"i", "n", "c">>) >>

\* the path of the unit file of a one-letter unit in a directory
UnitPath(dir, stem) == dir \o << Ext(stem, PasExt) >>

kwUses == <<"u", "s", "e", "s">>
IncDirective == <<"{", "$", "I", " ">> \o IncText \o <<"}">>
\* directives that name y.inc, the .dpr and the unit U
Inc2Directive == <<"{", "$", "I", " ">> \o Ext(<<"y">>, <<"i", "n", "c">>) \o <<"}">>
DprDirective == <<"{", "$", "I", " ">> \o Ext(<<"p">>, <<"d", "p", "r">>) \o <<"}">>
UnitDirective == <<"{", "$", "I", " ">> \o Ext(<<"U">>, PasExt) \o <<"}">>

\* the number of entries written in a generated uses clause
MaxEntries == 3

\* the units a generated .dpr declares, in order, with the directory of each
DeclUnits == << [name |-> <<"A">>, path |-> UnitPath(RootDir, <<"A">>)],
                [name |-> <<"B">>, path |-> UnitPath(SubDir, <<"B">>)],
                [name |-> <<"C">>, path |-> UnitPath(RootDir, <<"C">>)],
                [name |-> <<"E">>, path |-> UnitPath(SubDir, <<"E">>)] >>

\* layouts: the text between "uses" and the first entry, and after each comma
Layouts == { [lead |-> <<" ">>, sep |-> <<" ">>],
             [lead |-> <<" ">>, sep |-> <<>>],
             [lead |-> <<"\n", " ", " ">>, sep |-> <<"\n", " ", " ">>],
             [lead |-> <<"\r", "\n", "\t">>, sep |-> <<"\r", "\n", "\t">>] }

\* comments that may follow a comma or precede the closing semicolon
BraceComment == <<"{", "c", "}">>
ParenComment == <<"(", "*", "c", "*", ")">>
LineComment == <<"/", "/", "c", "\n">>
GapComments == { <<>>, BraceComment, ParenComment, LineComment }

\* what may stand between the last entry and the closing semicolon
Tails == { <<>>, <<"\n">>, <<" ">> \o BraceComment, <<" ">> \o ParenComment,
           <<" ">> \o LineComment, <<",", " ">> \o IncDirective }

PathStyles == { "none", "slash", "backslash" }

\* the text of the k-th declared entry
DeclEntryText(k, style) ==
    IF style = "none" THEN DeclUnits[k].name
    ELSE DeclUnits[k].name \o <<" ", "i", "n", " ", "'">>
         \o JoinPath(relative_path(DeclUnits[k].path, RootDir),
                     IF style = "slash" THEN "/" ELSE "\\")
         \o <<"'">>

RECURSIVE DeclEntriesText(_, _, _, _, _)
DeclEntriesText(k, n, style, layout, gap) ==
    IF k > n THEN <<>>
    ELSE DeclEntryText(k, style)
         \o (IF k < n THEN <<",">> \o gap \o layout.sep ELSE <<>>)
         \o DeclEntriesText(k + 1, n, style, layout, gap)

\* a generated .dpr
DprText(n, style, layout, gap, tail) ==
    <<"p", "r", "o", "g", "r", "a", "m", " ", "P", ";", "\n">>
    \o kwUses \o layout.lead \o DeclEntriesText(1, n, style, layout, gap)
    \o tail \o <<";">> \o <<"\n", "e", "n", "d", ".">>

DprTexts ==
    { DprText(n, style, layout, gap, tail) :
        n \in 1..MaxEntries, style \in PathStyles, layout \in Layouts,
        gap \in GapComments, tail \in Tails }

\* the contents an include file of the model may have
IncTexts == { <<"X">>, <<"X", ",", " ", "Y", ",">>, <<"X", ";">>, <<"X", ",", " ", ";">>,
              IncDirective }

\* units that may be inserted by the editor
NewUnits == { [name |-> <<"N">>, path |-> UnitPath(SubDir, <<"N">>), uses |-> <<>>],
              [name |-> <<"N", ".", "M">>, path |-> UnitPath(VendorDir, <<"N", ".", "M">>),
               uses |-> <<>>] }

(***************************************************************************)
(* The corpus of unit files of Spec: six units with fixed names and paths, *)
(* a duplicate of B under another directory, and the uses each unit may    *)
(* have.                                                                   *)
(***************************************************************************)
OtherDir == << <<"r">>, <<"t">> >>
OutsideDir == << <<"o">> >>

PathA == UnitPath(RootDir, <<"A">>)
PathB == UnitPath(SubDir, <<"B">>)
PathB2 == UnitPath(OtherDir, <<"b">>)
PathC == UnitPath(RootDir, <<"C">>)
PathD == UnitPath(VendorDir, <<"D">>)
PathN == UnitPath(SubDir, <<"N">>)
PathO == UnitPath(OutsideDir, <<"O">>)
\* units of the fallback roots that bear the names of project units
PathVA == UnitPath(VendorDir, <<"A">>)
PathVB == UnitPath(VendorDir, <<"B">>)
PathOB == UnitPath(OutsideDir, <<"b">>)

\* the declared name of the unit in each file
UnitNames ==
    (PathA :> <<"A">>) @@ (PathB :> <<"B">>) @@ (PathB2 :> <<"b">>) @@ (PathC :> <<"C">>)
    @@ (PathD :> <<"D">>) @@ (PathN :> <<"N">>) @@ (PathO :> <<"O">>)
    @@ (PathVA :> <<"A">>) @@ (PathVB :> <<"B">>) @@ (PathOB :> <<"b">>)

\* the uses a unit file may contain: the file, and the name as it is spelled
UsesEdges == << [from |-> PathA, name |-> <<"B">>],
                [from |-> PathA, name |-> <<"n">>],
                [from |-> PathB, name |-> <<"N">>],
                [from |-> PathC, name |-> <<"D">>],
                [from |-> PathN, name |-> <<"C">>],
                [from |-> PathN, name |-> <<"b">>],
                [from |-> PathD, name |-> <<"O">>] >>

\* the number of uses in the whole corpus
MaxEdges == 3

EdgeSets == { S \in SUBSET (1..Len(UsesEdges)) : Cardinality(S) <= MaxEdges }

\* the uses list of the unit file at path when the corpus has the edges S
UsesOfFile(path, S) ==
    Bind(SelectSeq([k \in 1..Len(UsesEdges) |-> k],
                   LAMBDA k : k \in S /\ UsesEdges[k].from = path),
         LAMBDA ks : [j \in 1..Len(ks) |-> UsesEdges[ks[j]].name])

\* the unit files on disk: path -> [name, uses, readable]; fs::read of a file
\* that is not readable returns Err
Corpus(paths, S, unreadable) == [q \in paths |-> [name |-> UnitNames[q], uses |-> UsesOfFile(q, S), readable |-> q \notin unreadable]]

\* what the scan of the project roots and of the fallback roots finds
\* and the files of the disk that cannot be read; in the last layout the
\* scan does not reach the directory of B
CacheLayouts ==
    { [project |-> <<PathA, PathB, PathC, PathN>>, delphi |-> Some(<<PathD>>),
       unreadable |-> {}],
      [project |-> <<PathA, PathB, PathB2, PathC, PathN>>, delphi |-> Some(<<PathD>>),
       unreadable |-> {}],
      [project |-> <<PathA, PathB, PathC, PathN>>, delphi |-> None,
       unreadable |-> {}],
      [project |-> <<PathA, PathC, PathN>>, delphi |-> Some(<<PathD>>),
       unreadable |-> {PathB}] }

\* the files of a layout, with the units that no scan finds
DiskPaths(layout) ==
    Range(layout.project) \cup {PathB, PathD, PathO}

Dpr2Path == RootDir \o << Ext(<<"q">>, <<"d", "p", "r">>) >>

SingleLine == [lead |-> <<" ">>, sep |-> <<" ">>]
MultiLine == [lead |-> <<"\n", " ", " ">>, sep |-> <<"\n", " ", " ">>]

\* the contents of the include file of Spec
ProjectInclude == <<"C">>

\* a .dpr without a uses clause
NoUsesText == <<"p", "r", "o", "g", "r", "a", "m", " ", "P", ";", "\n", "e", "n", "d", ".">>

\* a .dpr whose uses clause ends with the include directive
IncludingText == DprText(1, "none", SingleLine, <<>>, <<",", " ">> \o IncDirective)

\* the projects of Spec: the .dpr files handed to the tool, their texts and
\* the text of the include file
Projects ==
    { [dpr_paths |-> <<DprPath>>, include |-> ProjectInclude,
       text |-> (DprPath :> DprText(2, "backslash", SingleLine, <<>>, <<>>))],
      [dpr_paths |-> <<DprPath>>, include |-> ProjectInclude,
       text |-> (DprPath :> DprText(2, "none", MultiLine, <<>>, <<"\n">>))],
      [dpr_paths |-> <<DprPath>>, include |-> ProjectInclude,
       text |-> (DprPath :> DprText(1, "slash", MultiLine, <<>>, <<" ">> \o LineComment))],
      [dpr_paths |-> <<DprPath>>, include |-> ProjectInclude,
       text |-> (DprPath :> IncludingText)],
      [dpr_paths |-> <<Dpr2Path, DprPath>>, include |-> ProjectInclude,
       text |-> (Dpr2Path :> DprText(1, "none", SingleLine, <<>>, <<>>))
                @@ (DprPath :> DprText(2, "backslash", SingleLine, <<>>, <<>>))],
      [dpr_paths |-> <<Dpr2Path, DprPath>>, include |-> <<"X", ",", " ", ";">>,
       text |-> (Dpr2Path :> NoUsesText) @@ (DprPath :> IncludingText)],
      [dpr_paths |-> <<DprPath>>, include |-> <<"C", ";">>,
       text |-> (DprPath :> IncludingText)] }

NewUnitN == [name |-> <<"N">>, path |-> PathN]

(***************************************************************************)
(* Spec: one run of add-dependency (update_dpr_files) or of fix-dpr        *)
(* (fix_dpr_file) over a project, step by step, and a second run with the  *)
(* same arguments.  A step ends at each write of a .dpr.                   *)
(***************************************************************************)
Modes == { [mode |-> "add", add_introduced_dependencies |-> TRUE],
           [mode |-> "add", add_introduced_dependencies |-> FALSE],
           [mode |-> "fix", add_introduced_dependencies |-> FALSE] }

\* where a run starts
StartOf(mode) == IF mode = "add" THEN "dpr_loop" ELSE "fix_start"

NoHistory(text) == [run |-> 1, before |-> text, inserted |-> <<>>, first |-> None]

\* the states in which a run over one of the projects, in one of the modes,
\* begins
InitOf(projects, modes) ==
    \E project \in projects, layout \in CacheLayouts, S \in EdgeSets, m \in modes :
        /\ files = project.text @@ (IncPath :> project.include)
        /\ disk = Corpus(DiskPaths(layout), S, layout.unreadable)
        /\ unit_cache = build_unit_cache([text |-> <<>>, units |-> disk], layout.project).cache
        /\ delphi_unit_cache =
              IF IsSome(layout.delphi)
              THEN Some(build_unit_cache([text |-> <<>>, units |-> disk],
                                         Unwrap(layout.delphi)).cache)
              ELSE None
        /\ args = [mode |-> m.mode,
                   dpr_paths |-> project.dpr_paths,
                   new_unit |-> Unwrap(load_unit_file([text |-> <<>>, units |-> disk],
                                                      NewUnitN.path).info),
                   add_introduced_dependencies |-> m.add_introduced_dependencies]
        /\ pc = StartOf(m.mode)
        /\ loc = NoLocals(1)
        /\ summary = EmptySummary(IF m.mode = "add" THEN 0 ELSE 1)
        /\ hist = NoHistory(files)

Init == InitOf(Projects, Modes)

\* continue 'dpr_loop
Continue(sum) ==
    /\ summary' = sum
    /\ loc' = NoLocals(loc.idx + 1)
    /\ pc' = "dpr_loop"

\* the first part of an iteration of 'dpr_loop: read, parse, decide
AddScan ==
    /\ args.mode = "add" /\ pc = "dpr_loop" /\ loc.idx <= Len(args.dpr_paths)
    /\ LET r == UpdateScan(FS, args.dpr_paths[loc.idx], unit_cache, delphi_unit_cache,
                           args.new_unit, [summary EXCEPT !.scanned = @ + 1])
       IN  /\ summary' = r.summary
           /\ pc' = CASE r.next = "continue" -> "dpr_loop"
                      [] r.next = "abort" -> "aborted"
                      [] r.next = "insert_new" -> "insert_new"
                      [] r.next = "has_new_unit" ->
                            IF args.add_introduced_dependencies THEN "introduced"
                            ELSE "dpr_end"
           /\ loc' = IF r.next = "continue" THEN NoLocals(loc.idx + 1)
                     ELSE [loc EXCEPT !.current_bytes = r.current_bytes,
                                      !.current_list = r.current_list,
                                      !.project_map = r.project_map,
                                      !.has_new_unit = r.has_new_unit,
                                      !.needs_new_unit = (r.next = "insert_new"),
                                      !.insert_after = r.insert_after]
    /\ UNCHANGED <<files, disk, unit_cache, delphi_unit_cache, args, hist>>

\* insert_new_unit succeeded for unit: dpr_updated, last_inserted_name, reload
Inserted(text, path, unit, then) ==
    LET r == Reload([text |-> text, units |-> disk], path, summary) IN
    /\ hist' = [hist EXCEPT !.inserted = Append(@, [dpr |-> path, name |-> unit.name,
                                                     path |-> unit.path])]
    /\ IF r.ok
       THEN /\ summary' = r.summary
            /\ loc' = [loc EXCEPT !.current_bytes = r.current_bytes,
                                  !.current_list = r.current_list,
                                  !.dpr_updated = TRUE,
                                  !.last_inserted_name = Some(unit.name),
                                  !.pending = IF @ = <<>> THEN @ ELSE Tail(@)]
            /\ pc' = then
       ELSE IF args.mode = "add" THEN Continue(r.summary)
       ELSE /\ summary' = r.summary
            /\ loc' = loc
            /\ pc' = "done"

\* insert_new_unit failed: Err(err) of write_atomic
NotInserted(path) ==
    /\ hist' = hist
    /\ IF args.mode = "add"
       THEN Continue(Failure(summary, <<"failed to update dpr", path>>))
       ELSE /\ summary' = Failure(summary, <<"failed to update dpr", path>>)
            /\ loc' = loc
            /\ pc' = "done"

\* insert_new_unit(current_bytes, path, current_list, unit, insert_after) and
\* what follows it
InsertUnit(path, unit, insert_after, then) ==
    \E out \in write_atomic(files, path,
                            insert_new_unit(loc.current_bytes, path,
                                            Unwrap(loc.current_list), unit, insert_after)) :
        /\ files' = out.text
        /\ IF out.ok THEN Inserted(out.text, path, unit, then) ELSE NotInserted(path)

\* the insertion of the new unit
AddInsertNew ==
    /\ pc = "insert_new"
    /\ InsertUnit(args.dpr_paths[loc.idx], args.new_unit, loc.insert_after,
                  IF args.add_introduced_dependencies THEN "introduced" ELSE "dpr_end")
    /\ UNCHANGED <<disk, unit_cache, delphi_unit_cache, args>>

\* collect_introduced_dependencies
AddIntroduced ==
    /\ pc = "introduced"
    /\ LET r == collect_introduced_dependencies(FS, unit_cache, delphi_unit_cache,
                                                loc.project_map, args.new_unit,
                                                summary.warnings)
       IN  IF r.err
           THEN /\ pc' = "aborted"
                /\ UNCHANGED <<loc, summary>>
           ELSE /\ pc' = "insert_dep"
                /\ summary' = [summary EXCEPT !.warnings = r.warnings]
                /\ loc' = [loc EXCEPT
                             !.pending = r.introduced,
                             !.last_inserted_name =
                                 IF loc.has_new_unit /\ IsNone(@)
                                 THEN Some(args.new_unit.name) ELSE @]
    /\ UNCHANGED <<files, disk, unit_cache, delphi_unit_cache, args, hist>>

\* an introduced dependency that the .dpr already declares
AddSkipDep ==
    /\ pc = "insert_dep" /\ loc.pending # <<>>
    /\ HasEntry(Unwrap(loc.current_list), Head(loc.pending).name)
    /\ loc' = [loc EXCEPT !.pending = Tail(@)]
    /\ UNCHANGED <<files, disk, unit_cache, delphi_unit_cache, args, pc, summary, hist>>

\* the insertion of an introduced dependency
AddInsertDep ==
    /\ pc = "insert_dep" /\ loc.pending # <<>>
    /\ ~HasEntry(Unwrap(loc.current_list), Head(loc.pending).name)
    /\ InsertUnit(args.dpr_paths[loc.idx], Head(loc.pending),
                  PositionOf(Unwrap(loc.current_list), loc.last_inserted_name),
                  "insert_dep")
    /\ UNCHANGED <<disk, unit_cache, delphi_unit_cache, args>>

\* the end of an iteration of 'dpr_loop
AddEndDpr ==
    /\ pc = "dpr_end" \/ (pc = "insert_dep" /\ loc.pending = <<>>)
    /\ summary' = IF loc.dpr_updated
                  THEN [summary EXCEPT !.updated = @ + 1,
                                       !.updated_paths =
                                           Append(@, args.dpr_paths[loc.idx])]
                  ELSE summary
    /\ loc' = NoLocals(loc.idx + 1)
    /\ pc' = "dpr_loop"
    /\ UNCHANGED <<files, disk, unit_cache, delphi_unit_cache, args, hist>>

\* Ok(summary)
AddDone ==
    /\ args.mode = "add" /\ pc = "dpr_loop" /\ loc.idx > Len(args.dpr_paths)
    /\ pc' = "done"
    /\ UNCHANGED <<files, disk, unit_cache, delphi_unit_cache, args, loc, summary, hist>>

\* the .dpr of fix_dpr_file
FixPath == canonicalize_if_exists(FS, args.dpr_paths[Len(args.dpr_paths)])

\* fix_dpr_file up to the loop over the missing units
FixStart ==
    /\ pc = "fix_start"
    /\ LET r == FixScan(FS, FixPath, unit_cache, delphi_unit_cache, summary) IN
       /\ summary' = r.summary
       /\ loc' = [loc EXCEPT !.current_bytes = r.current_bytes,
                             !.current_list = r.current_list,
                             !.pending = r.pending]
       /\ pc' = IF r.next = "insert" THEN "fix_insert" ELSE "done"
    /\ UNCHANGED <<files, disk, unit_cache, delphi_unit_cache, args, hist>>

\* the insertion of a missing unit
FixInsertDep ==
    /\ pc = "fix_insert" /\ loc.pending # <<>>
    /\ InsertUnit(FixPath, Head(loc.pending),
                  PositionOf(Unwrap(loc.current_list), loc.last_inserted_name),
                  "fix_insert")
    /\ UNCHANGED <<disk, unit_cache, delphi_unit_cache, args>>

\* the end of fix_dpr_file
FixDone ==
    /\ pc = "fix_insert" /\ loc.pending = <<>>
    /\ summary' = IF loc.dpr_updated
                  THEN [summary EXCEPT !.updated = @ + 1,
                                       !.updated_paths = Append(@, FixPath)]
                  ELSE summary
    /\ pc' = "done"
    /\ UNCHANGED <<files, disk, unit_cache, delphi_unit_cache, args, loc, hist>>

\* the tool is run a second time, with the same arguments, after a run that
\* reported no failure
Rerun ==
    /\ pc = "done" /\ hist.run = 1 /\ summary.failures = 0
    /\ hist' = [run |-> 2, before |-> files, inserted |-> <<>>,
                first |-> Some([summary |-> summary, before |-> hist.before,
                                inserted |-> hist.inserted])]
    /\ summary' = EmptySummary(IF args.mode = "add" THEN 0 ELSE 1)
    /\ loc' = NoLocals(1)
    /\ pc' = StartOf(args.mode)
    /\ UNCHANGED <<files, disk, unit_cache, delphi_unit_cache, args>>

Next ==
    \/ AddScan \/ AddInsertNew \/ AddIntroduced \/ AddSkipDep \/ AddInsertDep
    \/ AddEndDpr \/ AddDone
    \/ FixStart \/ FixInsertDep \/ FixDone
    \/ Rerun

Spec == Init /\ [][Next]_vars

(***************************************************************************)
(* SpecDeclared: add-dependency over a .dpr that already declares the new  *)
(* unit, spelled in another case                                           *)
(***************************************************************************)
\* uses A, C, n;
DeclaringText ==
    <<"p", "r", "o", "g", "r", "a", "m", " ", "P", ";", "\n">>
    \o kwUses \o <<" ", "A", ",", " ", "C", ",", " ", "n", ";", "\n", "e", "n", "d", ".">>

\* uses B, N;
DeclaringBText ==
    <<"p", "r", "o", "g", "r", "a", "m", " ", "P", ";", "\n">>
    \o kwUses \o <<" ", "B", ",", " ", "N", ";", "\n", "e", "n", "d", ".">>

DeclaringProjects ==
    { [dpr_paths |-> <<DprPath>>, include |-> ProjectInclude,
       text |-> (DprPath :> DeclaringText)],
      [dpr_paths |-> <<DprPath>>, include |-> ProjectInclude,
       text |-> (DprPath :> DeclaringBText)] }

InitDeclared == InitOf(DeclaringProjects, { m \in Modes : m.mode = "add" })

NextDeclared ==
    \/ AddScan \/ AddIntroduced \/ AddSkipDep \/ AddInsertDep \/ AddEndDpr \/ AddDone
    \/ Rerun

SpecDeclared == InitDeclared /\ [][NextDeclared]_vars

(***************************************************************************)
(* SpecText: insert_new_unit applied to a generated .dpr, then a re-parse  *)
(***************************************************************************)
InitText ==
    /\ \E t \in DprTexts, inc \in IncTexts :
          files = (DprPath :> t) @@ (IncPath :> inc)
    /\ disk = <<>>
    /\ unit_cache = EmptyCache
    /\ delphi_unit_cache = None
    /\ \E nu \in NewUnits, ia \in {None} \cup {Some(k) : k \in 0..(MaxEntries - 1)} :
          args = [dpr_path |-> DprPath, new_unit |-> nu, insert_after |-> ia]
    /\ pc = "ready"
    /\ loc = [bytes |-> <<>>, list |-> None, relist |-> None]
    /\ summary = [warnings |-> <<>>]
    /\ hist = <<>>

\* the uses clause does not parse: nothing is inserted
TextNoParse ==
    /\ pc = "ready"
    /\ LET p == parse_dpr_uses(FS, args.dpr_path, files[args.dpr_path], <<>>) IN
       /\ IsNone(p.list)
       /\ summary' = [warnings |-> p.warnings]
    /\ pc' = "noparse"
    /\ UNCHANGED <<files, disk, unit_cache, delphi_unit_cache, args, loc, hist>>

\* insert_new_unit on the parsed list; write_atomic succeeds
TextInsert ==
    /\ pc = "ready"
    /\ LET bytes == files[args.dpr_path]
           p == parse_dpr_uses(FS, args.dpr_path, bytes, <<>>)
       IN  /\ IsSome(p.list)
           /\ files' = [files EXCEPT ![args.dpr_path] =
                          insert_new_unit(bytes, args.dpr_path, Unwrap(p.list),
                                          args.new_unit, args.insert_after)]
           /\ loc' = [bytes |-> bytes, list |-> p.list, relist |-> None]
           /\ summary' = [warnings |-> p.warnings]
    /\ pc' = "inserted"
    /\ UNCHANGED <<disk, unit_cache, delphi_unit_cache, args, hist>>

\* reload_dpr_state: the written file is read and parsed again
TextReparse ==
    /\ pc = "inserted"
    /\ LET p == parse_dpr_uses(FS, args.dpr_path, files[args.dpr_path], summary.warnings) IN
       /\ loc' = [loc EXCEPT !.relist = p.list]
       /\ summary' = [warnings |-> p.warnings]
    /\ pc' = "reparsed"
    /\ UNCHANGED <<files, disk, unit_cache, delphi_unit_cache, args, hist>>

NextText == TextNoParse \/ TextInsert \/ TextReparse

SpecText == InitText /\ [][NextText]_vars

(***************************************************************************)
(* SpecInclude: the uses clauses of a .dpr and of a unit that name the     *)
(* include file x.inc, parsed once each                                    *)
(***************************************************************************)
UnitUPath == UnitPath(RootDir, <<"U">>)

\* what x.inc may hold: entries, or a directive that names x.inc, y.inc
\* (which names x.inc), the .dpr or the unit
CycleIncTexts ==
    IncTexts \cup { Inc2Directive, <<"X", ",", " ">> \o DprDirective,
                    <<"X", ",", " ">> \o UnitDirective }

\* the .dpr texts of the model whose uses clause ends with the directive
IncludeDprTexts ==
    { DprText(n, style, layout, gap, <<",", " ">> \o IncDirective) :
        n \in 1..MaxEntries, style \in PathStyles, layout \in Layouts,
        gap \in GapComments }

UnitHead == <<"u", "n", "i", "t", " ", "U", ";", "\n">>
kwInterface == <<"i", "n", "t", "e", "r", "f", "a", "c", "e", "\n">>
kwImplementation ==
    <<"\n", "i", "m", "p", "l", "e", "m", "e", "n", "t", "a", "t", "i", "o", "n", "\n">>
UnitEnd == <<"\n", "e", "n", "d", ".">>

\* units whose uses name x.inc between entries, behind a token that follows
\* an entry (skip_ws_and_comments passes over a directive that follows the
\* entry at once), and in the implementation section in front of an entry
UnitTexts ==
    { UnitHead \o kwInterface \o kwUses \o <<" ", "A", ",", " ">> \o IncDirective \o <<";">>
        \o kwImplementation \o UnitEnd,
      UnitHead \o kwInterface \o kwUses
        \o <<" ", "A", " ", "i", "n", " ", "'", "A", ".", "p", "a", "s", "'", " ", "x", " ">>
        \o IncDirective \o <<",", " ", "B", ";">> \o kwImplementation \o UnitEnd,
      UnitHead \o kwInterface \o kwUses \o <<" ", "A", ";">> \o kwImplementation
        \o kwUses \o <<" ">> \o IncDirective \o <<" ", "B", ";">> \o UnitEnd }

InitInclude ==
    /\ \E t \in IncludeDprTexts, inc \in CycleIncTexts, u \in UnitTexts :
          files = (DprPath :> t) @@ (IncPath :> inc) @@ (Inc2Path :> IncDirective)
                    @@ (UnitUPath :> u)
    /\ disk = <<>>
    /\ unit_cache = EmptyCache
    /\ delphi_unit_cache = None
    /\ args = [dpr_path |-> DprPath, unit_path |-> UnitUPath]
    /\ pc = "ready"
    /\ loc = [list |-> None, deps |-> <<>>]
    /\ summary = [warnings |-> <<>>]
    /\ hist = <<>>

\* parse_dpr_uses on the .dpr
IncludeParseDpr ==
    /\ pc = "ready"
    /\ LET p == parse_dpr_uses(FS, args.dpr_path, files[args.dpr_path], <<>>) IN
       /\ loc' = [loc EXCEPT !.list = p.list]
       /\ summary' = [warnings |-> p.warnings]
    /\ pc' = "dpr_parsed"
    /\ UNCHANGED <<files, disk, unit_cache, delphi_unit_cache, args, hist>>

\* parse_unit_uses on the unit
IncludeParseUnit ==
    /\ pc = "ready"
    /\ LET p == parse_unit_uses(FS, args.unit_path, files[args.unit_path], <<>>) IN
       /\ loc' = [loc EXCEPT !.deps = p.deps]
       /\ summary' = [warnings |-> p.warnings]
    /\ pc' = "unit_parsed"
    /\ UNCHANGED <<files, disk, unit_cache, delphi_unit_cache, args, hist>>

NextInclude == IncludeParseDpr \/ IncludeParseUnit

SpecInclude == InitInclude /\ [][NextInclude]_vars

(***************************************************************************)
(* SpecWrite: write_atomic, one file system call at a time                 *)
(***************************************************************************)
TempPath == with_extension(args.path, <<"t", "m", "p">>)

\* the .dpr holds a generated text; the contents to write are that text with
\* a new unit inserted
InitWrite ==
    /\ \E t \in DprTexts, nu \in NewUnits :
          LET p == parse_dpr_uses([text |-> (DprPath :> t), units |-> <<>>], DprPath, t, <<>>)
          IN  /\ IsSome(p.list)
              /\ files = (DprPath :> t)
              /\ args = [path |-> DprPath,
                         contents |-> insert_new_unit(t, DprPath, Unwrap(p.list), nu, None)]
              /\ loc = [old |-> t, removed |-> FALSE]
    /\ disk = <<>>
    /\ unit_cache = EmptyCache
    /\ delphi_unit_cache = None
    /\ pc = "write"
    /\ summary = [result |-> None]
    /\ hist = <<>>

\* write_atomic returns
WriteReturn(ok) ==
    /\ pc' = "returned"
    /\ summary' = [result |-> Some(ok)]

\* fs::write(&temp_path, contents)?
WriteTemp ==
    /\ pc = "write"
    /\ \E w \in fs_write(files, TempPath, args.contents) :
          /\ files' = w.text
          /\ IF w.ok THEN pc' = "rename" /\ UNCHANGED summary
             ELSE WriteReturn(FALSE)
    /\ UNCHANGED <<disk, unit_cache, delphi_unit_cache, args, loc, hist>>

\* fs::rename(&temp_path, path)
RenameTemp ==
    /\ pc = "rename"
    /\ \E r \in fs_rename(files, TempPath, args.path) :
          /\ files' = r.text
          /\ IF r.result = "AlreadyExists" THEN pc' = "remove" /\ UNCHANGED summary
             ELSE WriteReturn(r.result = "Ok")
    /\ UNCHANGED <<disk, unit_cache, delphi_unit_cache, args, loc, hist>>

\* fs::remove_file(path)?
RemoveTarget ==
    /\ pc = "remove"
    /\ \E d \in fs_remove_file(files, args.path) :
          /\ files' = d.text
          /\ loc' = [loc EXCEPT !.removed = d.ok]
          /\ IF d.ok THEN pc' = "retry" /\ UNCHANGED summary
             ELSE WriteReturn(FALSE)
    /\ UNCHANGED <<disk, unit_cache, delphi_unit_cache, args, hist>>

\* fs::rename(temp_path, path), the retry
RenameAgain ==
    /\ pc = "retry"
    /\ \E r \in fs_rename(files, TempPath, args.path) :
          /\ files' = r.text
          /\ WriteReturn(r.result = "Ok")
    /\ UNCHANGED <<disk, unit_cache, delphi_unit_cache, args, loc, hist>>

NextWrite == WriteTemp \/ RenameTemp \/ RemoveTarget \/ RenameAgain

SpecWrite == InitWrite /\ [][NextWrite]_vars

(***************************************************************************)
(* Properties of write_atomic (SpecWrite)                                  *)
(***************************************************************************)
\* the target exists and holds the previous or the new contents
TargetIntact ==
    /\ args.path \in DOMAIN files
    /\ files[args.path] \in {loc.old, args.contents}

\* C7: in every state of write_atomic, the intermediate states and the
\* states after a failed step included, the target path exists and holds
\* either the complete previous contents or the complete new contents.
C7_Atomic == TargetIntact

\* write_atomic has returned an error after the retried rename failed: the
\* target is gone, and the new contents lie in the temporary file
C7_Witness ==
    /\ pc = "returned"
    /\ summary.result = Some(FALSE)
    /\ loc.removed
    /\ args.path \notin DOMAIN files
    /\ files[TempPath] = args.contents

\* C7 without the removal of the target: the states in which
\* fs::remove_file has not succeeded keep the target intact, and a return of
\* Ok leaves the new contents in it
C7_IntactUntilRemoved ==
    /\ ~loc.removed => TargetIntact
    /\ (pc = "returned" /\ summary.result = Some(TRUE)) =>
          /\ TargetIntact
          /\ files[args.path] = args.contents
          /\ TempPath \notin DOMAIN files

\* the outcomes of the steps are the outcomes of write_atomic
C7_StepsAgree ==
    pc = "returned" =>
        [ok |-> Unwrap(summary.result), text |-> files]
            \in write_atomic((args.path :> loc.old), args.path, args.contents)

(***************************************************************************)
(* Properties of the splice and of the re-parse (SpecText)                 *)
(***************************************************************************)
\* the <<name, in_path>> pairs of the entries, in order
NamesAndPaths(entries) ==
    [k \in 1..Len(entries) |-> <<entries[k].name, entries[k].in_path>>]

\* the sequence without its k-th element
RemoveAt(seq, k) == SubSeq(seq, 1, k - 1) \o SubSeq(seq, k + 1, Len(seq))

\* the indices of the entries whose name is name
IndicesOf(entries, name) == { k \in 1..Len(entries) : entries[k].name = name }

\* the re-parsed list holds the new unit once, and the old entries around it
IsRoundTrip(old, new, name) ==
    /\ Cardinality(IndicesOf(new, name)) = 1
    /\ NamesAndPaths(RemoveAt(new, CHOOSE k \in IndicesOf(new, name) : TRUE))
         = NamesAndPaths(old)

\* C2: after insert_new_unit has written the file, the re-parse of the
\* written bytes yields a list with exactly one entry of the inserted unit's
\* name and all previously parsed entries, with their names and in-paths, in
\* their order.
C2_RoundTrip ==
    pc = "reparsed" =>
        /\ IsSome(loc.relist)
        /\ IsRoundTrip(Unwrap(loc.list).entries, Unwrap(loc.relist).entries,
                       args.new_unit.name)

\* new is old with a non-empty span inserted at offset p
IsSpliceAt(old, new, p) ==
    /\ Len(new) > Len(old)
    /\ p <= Len(old)
    /\ Slice(new, 0, p) = Slice(old, 0, p)
    /\ Slice(new, p + (Len(new) - Len(old)), Len(new)) = Slice(old, p, Len(old))

\* C3: what insert_new_unit writes is the buffer it was given with one span
\* inserted at a single offset p that lies inside the uses clause (not before
\* the first entry, not after the closing semicolon); every original byte is
\* kept in place and the length grows by the length of the span.
C3_MinimalSplice ==
    pc = "inserted" =>
        \E p \in Unwrap(loc.list).entries[1].start .. Unwrap(loc.list).semicolon :
            IsSpliceAt(loc.bytes, files[args.dpr_path], p)

\* an insertion anchored after an entry, in front of a comment
C3_Witness ==
    /\ pc = "inserted"
    /\ IsSome(args.insert_after)
    /\ InsertionOf(loc.bytes, args.dpr_path, Unwrap(loc.list), args.new_unit,
                   args.insert_after)[1] < SkipWsBackward(loc.bytes, Unwrap(loc.list).semicolon)
    /\ \E k \in 1..(Len(loc.bytes) - 2) : SubSeq(loc.bytes, k, k + 2) = BraceComment
    /\ C3_MinimalSplice

(***************************************************************************)
(* Properties of the runs (Spec)                                           *)
(***************************************************************************)
\* the uses of the unit at path, as the caches or the disk give them
UsesAt(path) ==
    Bind(load_unit_uses(FS, unit_cache, delphi_unit_cache, path), LAMBDA l :
        IF IsSome(l.uses) THEN Unwrap(l.uses) ELSE <<>>)

\* the uses list of the unit at path names the unit
NamesUnit(path, unit) ==
    \E k \in 1..Len(UsesAt(path)) : eq_ignore_ascii_case(UsesAt(path)[k], unit.name)

\* the paths that the uses of the unit at path resolve to, the uses that
\* name the unit left out
UsedPaths(map, path, unit) ==
    { Unwrap(r.path) :
        r \in { rr \in { resolve_dep_path(map, unit_cache, delphi_unit_cache,
                                          UsesAt(path)[k], path, <<>>) :
                           k \in { j \in 1..Len(UsesAt(path)) :
                                     ~eq_ignore_ascii_case(UsesAt(path)[j], unit.name) } } :
                  IsSome(rr.path) } }

\* the units reachable from the units of S through uses chains
RECURSIVE ReachableFrom(_, _, _)
ReachableFrom(map, S, unit) ==
    Bind(S \cup UNION { UsedPaths(map, q, unit) : q \in S }, LAMBDA T :
        IF T = S THEN S ELSE ReachableFrom(map, T, unit))

\* the unit at path uses the unit, directly or through a chain of uses
IsTransitiveDependent(map, path, unit) ==
    \E q \in ReachableFrom(map, {path}, unit) : NamesUnit(q, unit)

\* the list and the project map of the .dpr as it was when the run began
ListBefore(dpr) == parse_dpr_uses([text |-> hist.before, units |-> disk], dpr,
                                  hist.before[dpr], <<>>).list

MapBefore(dpr) ==
    build_project_map([text |-> hist.before, units |-> disk], dpr, Unwrap(ListBefore(dpr)),
                      unit_cache, delphi_unit_cache, <<>>).map

\* the names insert_new_unit wrote into the .dpr during the run
InsertedInto(dpr) ==
    { hist.inserted[k].name : k \in { j \in 1..Len(hist.inserted) :
                                        hist.inserted[j].dpr = dpr } }

\* some declared entry of the .dpr is bound by the project map to a
\* transitive dependent of the unit
HasDependentEntry(dpr, unit) ==
    \E k \in 1..Len(Unwrap(ListBefore(dpr)).entries) :
        LET key == to_ascii_lowercase(Unwrap(ListBefore(dpr)).entries[k].name) IN
        /\ key \in DOMAIN MapBefore(dpr)
        /\ IsTransitiveDependent(MapBefore(dpr), MapBefore(dpr)[key], unit)

\* a run of add-dependency that has ended without a failure
AddRunEnded == args.mode = "add" /\ pc = "done" /\ summary.failures = 0

\* C1: at the end of a run of add-dependency without failures, a .dpr that
\* did not declare the new unit has the new unit inserted if and only if one
\* of its declared entries is bound by the project map to a unit that names
\* the new unit in its uses or reaches such a unit through uses chains; the
\* other .dpr files that did not declare it hold the bytes they held before.
C1_EditDecision ==
    AddRunEnded =>
        \A k \in 1..Len(args.dpr_paths) :
            LET dpr == args.dpr_paths[k] IN
            (IsSome(ListBefore(dpr)) /\ ~HasEntry(Unwrap(ListBefore(dpr)), args.new_unit.name))
            => /\ (args.new_unit.name \in InsertedInto(dpr))
                    <=> HasDependentEntry(dpr, args.new_unit)
               /\ (args.new_unit.name \notin InsertedInto(dpr))
                    => files[dpr] = hist.before[dpr]

\* the new unit was inserted into a .dpr none of whose entries names it
\* directly: the dependency runs through a chain of uses
C1_Witness ==
    /\ AddRunEnded /\ hist.run = 1
    /\ args.new_unit.name \in InsertedInto(DprPath)
    /\ \A key \in DOMAIN MapBefore(DprPath) :
          ~NamesUnit(MapBefore(DprPath)[key], args.new_unit)
    /\ files[DprPath] # hist.before[DprPath]

\* the second run, which follows a first run that reported no failure
SecondRun == hist.run = 2

\* the text of the .dpr ends its uses list with a line comment
EndsWithLineComment(text) ==
    \E k \in 1..(Len(text) - Len(LineComment)) :
        SubSeq(text, k, k + Len(LineComment)) = LineComment \o <<";">>

\* C4: after a run of add-dependency without failures, a second run with
\* the same arguments over the unchanged corpus writes nothing: the files
\* keep their bytes all along the run and the summary ends with updated = 0.
C4_AddIdempotent ==
    (args.mode = "add" /\ SecondRun) =>
        /\ files = hist.before
        /\ pc = "done" => summary.updated = 0

\* the second run inserts the new unit again: the first run wrote its entry
\* behind the line comment that ends the list
C4_Witness ==
    /\ args.mode = "add" /\ SecondRun /\ pc = "done"
    /\ summary.updated = 1
    /\ EndsWithLineComment(Unwrap(hist.first).before[DprPath])
    /\ args.new_unit.name \in InsertedInto(DprPath)

\* C4 for the projects whose lists do not end with a line comment
C4_ElsewhereIdempotent ==
    (args.mode = "add" /\ SecondRun
     /\ ~EndsWithLineComment(Unwrap(hist.first).before[DprPath])) =>
        /\ files = hist.before
        /\ pc = "done" => summary.updated = 0

\* the by_name bucket that resolve_by_name consults for the name
ConsultedBucket(name) ==
    LET key == to_ascii_lowercase(name) IN
    IF key \in DOMAIN unit_cache.by_name THEN unit_cache.by_name[key]
    ELSE IF IsSome(delphi_unit_cache) /\ key \in DOMAIN Unwrap(delphi_unit_cache).by_name
    THEN Unwrap(delphi_unit_cache).by_name[key]
    ELSE <<>>

\* two files of the consulted cache declare the name
IsAmbiguous(name) == Len(ConsultedBucket(name)) > 1

\* the in-path of the entry names a file: the entry is bound by its path
BoundByInPath(dpr, entry) ==
    /\ IsSome(entry.in_path)
    /\ is_file(FS, resolve_dpr_unit_path(FS, dpr, Unwrap(entry.in_path)))

\* the warnings hold one of the kinds for the name
Warned(warnings, kinds, name) ==
    \E k \in 1..Len(warnings) : warnings[k][1] \in kinds /\ warnings[k][2] = name

\* the references from the units of the set to ambiguous names that the
\* project map does not bind are all warned about
ReferencesWarned(paths, map, warnings) ==
    \A q \in paths : \A k \in 1..Len(UsesAt(q)) :
        LET dep == UsesAt(q)[k] IN
        (/\ IsAmbiguous(dep)
         /\ to_ascii_lowercase(dep) \notin DOMAIN map
         /\ ~eq_ignore_ascii_case(dep, args.new_unit.name))
        => \E j \in 1..Len(warnings) :
              /\ warnings[j][1] = "ambiguous unit"
              /\ warnings[j][2] = dep
              /\ warnings[j][3] = q

\* no path of the set is a file of an ambiguous name, the paths that the
\* entries of the .dpr name themselves excepted
NoneAmbiguous(paths, bound) ==
    \A q \in paths \ bound : ~IsAmbiguous(UnitNames[q])

\* build_project_map is safe for the list of the .dpr
MapIsSafe(dpr, list, m) ==
    /\ \A key \in DOMAIN m.map :
          IsAmbiguous(key) =>
             \E k \in 1..Len(list.entries) :
                /\ to_ascii_lowercase(list.entries[k].name) = key
                /\ BoundByInPath(dpr, list.entries[k])
                /\ resolve_dpr_unit_path(FS, dpr, Unwrap(list.entries[k].in_path))
                     = m.map[key]
    /\ \A k \in 1..Len(list.entries) :
          (IsAmbiguous(list.entries[k].name) /\ ~BoundByInPath(dpr, list.entries[k]))
          => Warned(m.warnings, {"missing in-path (ambiguous)", "unit is ambiguous"},
                    list.entries[k].name)

\* the walks of add-dependency are safe under the project map
AddIsSafe(map) ==
    LET bound == { map[key] : key \in DOMAIN map }
        g == compute_project_dependents(FS, unit_cache, delphi_unit_cache, map,
                                        args.new_unit, <<>>)
        w == collect_introduced_dependencies(FS, unit_cache, delphi_unit_cache, map,
                                             args.new_unit, <<>>)
        introduced == { w.introduced[k].path : k \in 1..Len(w.introduced) }
    IN  /\ NoneAmbiguous(Range(g.id_by_path), bound)
        /\ ReferencesWarned(Range(g.id_by_path), map, g.warnings)
        /\ NoneAmbiguous(introduced, bound)
        /\ ReferencesWarned({args.new_unit.path} \cup introduced, map, w.warnings)

\* the walk of fix-dpr is safe
FixIsSafe(dpr, list, m) ==
    LET roots == collect_fix_root_paths(FS, dpr, list, m.map, unit_cache,
                                        delphi_unit_cache, <<>>).roots
        w == collect_missing_dpr_dependencies(FS, roots, ExistingNames(list), unit_cache,
                                              delphi_unit_cache, <<>>)
        missing == { w.missing_units[k].path : k \in 1..Len(w.missing_units) }
    IN  /\ NoneAmbiguous(missing, {})
        /\ ReferencesWarned(Range(roots) \cup missing, <<>>, w.warnings)

\* the .dpr that the next step reads, when a step is about to read one
DprToScan ==
    IF args.mode = "add" /\ pc = "dpr_loop" /\ loc.idx <= Len(args.dpr_paths)
    THEN Some(args.dpr_paths[loc.idx])
    ELSE IF pc = "fix_start" THEN Some(FixPath)
    ELSE None

\* C5: a name that two files of the consulted cache declare is never
\* resolved by name.  Whenever a .dpr is about to be processed, the project
\* map built for it binds such a name only to the file that an entry of the
\* .dpr names itself by its in-path; the dependents graph, the introduced
\* dependencies and the missing units reach no file of such a name through
\* the name; each reference that is dropped has its warning; and no entry
\* ever inserted carries the path of such a file.
C5_AmbiguitySafety ==
    /\ \A k \in 1..Len(hist.inserted) : ~IsAmbiguous(UnitNames[hist.inserted[k].path])
    /\ IsSome(DprToScan) =>
          LET dpr == Unwrap(DprToScan)
              p == parse_dpr_uses(FS, dpr, files[dpr], <<>>)
              m == build_project_map(FS, dpr, Unwrap(p.list), unit_cache,
                                     delphi_unit_cache, <<>>)
          IN  (dpr \in DOMAIN files /\ IsSome(p.list)) =>
                 /\ MapIsSafe(dpr, Unwrap(p.list), m)
                 /\ IF args.mode = "add" THEN AddIsSafe(m.map)
                    ELSE FixIsSafe(dpr, Unwrap(p.list), m)

\* a unit that uses the ambiguous name B, which the .dpr does not bind, has
\* been walked, and the run has ended with the warning and without B
C5_Witness ==
    /\ pc = "done" /\ hist.run = 1
    /\ IsAmbiguous(<<"B">>)
    /\ <<"B">> \in Range(UsesAt(PathA))
    /\ \E k \in 1..Len(summary.warnings) :
          summary.warnings[k][1] = "ambiguous unit" /\ summary.warnings[k][2] = <<"B">>
    /\ hist.inserted # <<>>
    /\ \A k \in 1..Len(hist.inserted) : hist.inserted[k].name # <<"B">>

(***************************************************************************)
(* Properties of the include expansion (SpecInclude)                       *)
(***************************************************************************)
\* the warnings of an include cycle among ws, in order
RECURSIVE CycleWarnings(_)
CycleWarnings(ws) ==
    IF ws = <<>> THEN <<>>
    ELSE IF Head(ws)[1] = "include cycle detected"
         THEN <<Head(ws)>> \o CycleWarnings(Tail(ws))
         ELSE CycleWarnings(Tail(ws))

\* the directive that closes a cycle when the expansion starts in the file
\* start and x.inc holds text: the path it names and the file that holds it
ClosingDirective(start, text) ==
    CASE text = IncDirective -> Some(<<IncPath, IncPath>>)
      [] text = Inc2Directive -> Some(<<IncPath, Inc2Path>>)
      [] text = <<"X", ",", " ">> \o DprDirective /\ start = DprPath ->
            Some(<<DprPath, IncPath>>)
      [] text = <<"X", ",", " ">> \o UnitDirective /\ start = UnitUPath ->
            Some(<<UnitUPath, IncPath>>)
      [] OTHER -> None

\* the file system in which x.inc holds its text up to its directive
WithoutDirective ==
    [text |-> [files EXCEPT ![IncPath] =
                  IF files[IncPath] # <<>> /\ Head(files[IncPath]) = "X"
                  THEN <<"X", ",", " ">> ELSE <<>>],
     units |-> disk]

\* the file whose parse has ended
ParsedFile == IF pc = "dpr_parsed" THEN DprPath ELSE UnitUPath

\* C6: the parse of a uses clause that names an include file comes to an
\* end, for a .dpr and for a unit; when the include file includes itself,
\* directly or through a second include file, or includes the file that
\* started the expansion, the parse pushes one 'include cycle detected'
\* warning that names the directive closing the cycle, and yields what it
\* yields when that directive is absent; a parse without a cycle pushes no
\* such warning.
C6_IncludeCycle ==
    pc \in {"dpr_parsed", "unit_parsed"} =>
        IF IsSome(ClosingDirective(ParsedFile, files[IncPath]))
        THEN /\ CycleWarnings(summary.warnings)
                  = << <<"include cycle detected">>
                         \o Unwrap(ClosingDirective(ParsedFile, files[IncPath])) >>
             /\ pc = "dpr_parsed" =>
                  /\ IsSome(loc.list)
                  /\ loc.list = parse_dpr_uses(WithoutDirective, DprPath,
                                               files[DprPath], <<>>).list
             /\ pc = "unit_parsed" =>
                  loc.deps = parse_unit_uses(WithoutDirective, UnitUPath,
                                             files[UnitUPath], <<>>).deps
        ELSE CycleWarnings(summary.warnings) = <<>>

\* x.inc includes y.inc, which includes x.inc: the parse of the unit has gone
\* on to the entry B behind the directive
C6_Witness ==
    /\ pc = "unit_parsed"
    /\ files[IncPath] = Inc2Directive
    /\ files[Inc2Path] = IncDirective
    /\ Len(CycleWarnings(summary.warnings)) = 1
    /\ loc.deps = << <<"A">>, <<"B">> >>

\* x.inc includes the .dpr that names it: the .dpr has its list, with the
\* entry X of x.inc
C6_WitnessDpr ==
    /\ pc = "dpr_parsed"
    /\ files[IncPath] = <<"X", ",", " ">> \o DprDirective
    /\ Len(CycleWarnings(summary.warnings)) = 1
    /\ IsSome(loc.list)
    /\ \E k \in 1..Len(Unwrap(loc.list).entries) :
          Unwrap(loc.list).entries[k].from_include

\* the lowercased names of a set of names
Lowercased(names) == { to_ascii_lowercase(n) : n \in names }

\* the uses of the unit at path that resolve to the file of a cache
ResolvedUses(path) ==
    { u \in { <<UsesAt(path)[k],
                resolve_by_name(unit_cache, delphi_unit_cache, UsesAt(path)[k])>> :
                k \in 1..Len(UsesAt(path)) } :
        /\ u[2].kind = "Unique"
        /\ has_unit_path(unit_cache, delphi_unit_cache, u[2].path) }

\* the cached units reachable from the cached units of S by resolved uses
RECURSIVE CachedReach(_)
CachedReach(S) ==
    Bind(S \cup { u[2].path : u \in UNION { ResolvedUses(q) : q \in S } }, LAMBDA T :
        IF T = S THEN S ELSE CachedReach(T))

\* the declared entries of the .dpr that resolve to a unit of a cache
ResolvableRoots(dpr) ==
    { q \in { MapBefore(dpr)[key] : key \in DOMAIN MapBefore(dpr) } :
        has_unit_path(unit_cache, delphi_unit_cache, q) }

\* the lowercased names that fix-dpr has to add to the .dpr
MissingNames(dpr) ==
    Lowercased({ u[1] : u \in UNION { ResolvedUses(q) :
                                        q \in CachedReach(ResolvableRoots(dpr)) } })
    \ ExistingNames(Unwrap(ListBefore(dpr)))

\* a run of fix-dpr that has returned without a failure
FixRunEnded == args.mode = "fix" /\ pc = "done" /\ summary.failures = 0

\* C8: when fix_dpr_file returns with failures = 0 for a .dpr that parses,
\* the names it inserted are exactly the names of the units that some chain
\* of uses reaches from the resolvable declared entries, that resolve by
\* name to one file held by the project or the fallback cache, and that the
\* .dpr did not declare; every inserted unit is a unit of a cache.
C8_FixExact ==
    (FixRunEnded /\ IsSome(ListBefore(FixPath))) =>
        /\ Lowercased(InsertedInto(FixPath)) = MissingNames(FixPath)
        /\ \A k \in 1..Len(hist.inserted) :
              has_unit_path(unit_cache, delphi_unit_cache, hist.inserted[k].path)

\* the unit D of the fallback cache was inserted at the end of a chain of
\* uses; the unit O that D uses, found by no scan, was not
C8_Witness ==
    /\ FixRunEnded /\ hist.run = 1
    /\ <<"D">> \in InsertedInto(FixPath)
    /\ <<"O">> \in Range(UsesAt(PathD))
    /\ <<"O">> \notin InsertedInto(FixPath)
    /\ PathD \notin ResolvableRoots(FixPath)

\* C9: after a run of fix-dpr without failures, a second run on the same
\* .dpr with the same caches writes nothing: the files keep their bytes all
\* along the run, and the run returns updated = 0.
C9_FixIdempotent ==
    (args.mode = "fix" /\ SecondRun) =>
        /\ files = hist.before
        /\ pc = "done" => summary.updated = 0

\* the second run inserts a unit again: the first run wrote the entry behind
\* the line comment that ends the list
C9_Witness ==
    /\ args.mode = "fix" /\ SecondRun /\ pc = "done"
    /\ summary.updated = 1
    /\ EndsWithLineComment(Unwrap(hist.first).before[DprPath])
    /\ InsertedInto(FixPath) # {}
    /\ InsertedInto(FixPath) \subseteq
          { Unwrap(hist.first).inserted[k].name : k \in 1..Len(Unwrap(hist.first).inserted) }

\* C9 for the projects whose lists do not end with a line comment
C9_ElsewhereIdempotent ==
    (args.mode = "fix" /\ SecondRun
     /\ ~EndsWithLineComment(Unwrap(hist.first).before[DprPath])) =>
        /\ files = hist.before
        /\ pc = "done" => summary.updated = 0

\* the uses of the unit at path that resolve under the project map, the
\* uses that name the new unit or resolve to its file left out:
\* <<name, path>>
IntroducedUsesOf(map, path) ==
    { u \in { <<UsesAt(path)[k],
                resolve_dep_path(map, unit_cache, delphi_unit_cache, UsesAt(path)[k],
                                 path, <<>>).path>> :
                k \in { j \in 1..Len(UsesAt(path)) :
                          ~eq_ignore_ascii_case(UsesAt(path)[j], args.new_unit.name) } } :
        IsSome(u[2]) /\ Unwrap(u[2]) # args.new_unit.path }

\* the units that the uses of the units of S reach, with the units of S
RECURSIVE IntroducedReach(_, _)
IntroducedReach(map, S) ==
    Bind(S \cup { Unwrap(u[2]) : u \in UNION { IntroducedUsesOf(map, q) : q \in S } },
         LAMBDA T : IF T = S THEN S ELSE IntroducedReach(map, T))

\* the lowercased names of the transitive closure of the uses of the new
\* unit that resolve to a path and that the .dpr does not declare
IntroducedNames(dpr) ==
    Lowercased({ u[1] : u \in UNION { IntroducedUsesOf(MapBefore(dpr), q) :
                    q \in IntroducedReach(MapBefore(dpr), {args.new_unit.path}) } })
    \ ExistingNames(Unwrap(ListBefore(dpr)))

\* C10: at the end of a run of add-dependency without failures, a .dpr into
\* which the new unit was inserted has also received, when propagation is
\* enabled, exactly the units of the transitive closure of the uses of the
\* new unit that resolve to a path and that it did not declare; when
\* propagation is disabled, it has received the new unit and nothing else.
C10_Introduced ==
    AddRunEnded =>
        \A k \in 1..Len(args.dpr_paths) :
            LET dpr == args.dpr_paths[k] IN
            (args.new_unit.name \in InsertedInto(dpr)) =>
                IF args.add_introduced_dependencies
                THEN Lowercased(InsertedInto(dpr))
                        = IntroducedNames(dpr) \cup {to_ascii_lowercase(args.new_unit.name)}
                ELSE InsertedInto(dpr) = {args.new_unit.name}

\* with propagation enabled the new unit N was inserted, and with it C, which
\* N uses, and D, which only C uses
C10_Witness ==
    /\ AddRunEnded /\ hist.run = 1 /\ args.add_introduced_dependencies
    /\ InsertedInto(DprPath) = {<<"N">>, <<"C">>, <<"D">>}
    /\ <<"D">> \notin Range(UsesAt(PathN))

\* with propagation disabled the new unit N, which uses C, was inserted alone
C10_WitnessDisabled ==
    /\ AddRunEnded /\ hist.run = 1 /\ ~args.add_introduced_dependencies
    /\ InsertedInto(DprPath) = {<<"N">>}
    /\ <<"C">> \in Range(UsesAt(PathN))
    /\ ~HasEntry(Unwrap(ListBefore(DprPath)), <<"C">>)

(***************************************************************************)
(* Properties of the place and the form of the inserted entry (SpecText)   *)
(***************************************************************************)
\* every element of s is white space
AllWhitespace(s) == \A k \in 1..Len(s) : is_ascii_whitespace(s[k])

\* s without its leading white space
RECURSIVE DropWhitespace(_)
DropWhitespace(s) ==
    IF s # <<>> /\ is_ascii_whitespace(Head(s)) THEN DropWhitespace(Tail(s)) ELSE s

\* s is "<name> in '<path>'"
IsEntryOf(s, name) ==
    /\ Len(s) > Len(name) + 6
    /\ SubSeq(s, 1, Len(name) + 5) = name \o <<" ", "i", "n", " ", "'">>
    /\ s[Len(s)] = "'"
    /\ \A k \in (Len(name) + 6)..(Len(s) - 1) : s[k] \notin {"'", ",", ";"}

\* the span that the insertion at offset p put into the file
InsertedSpan(old, new, p) == Slice(new, p, p + (Len(new) - Len(old)))

\* the anchor of the insertion is an entry of the .dpr itself that ends with a
\* comma, and an entry follows that starts behind that comma
AnchorIsValid(list, insert_after) ==
    /\ IsSome(insert_after)
    /\ Unwrap(insert_after) + 2 <= Len(list.entries)
    /\ ~list.entries[Unwrap(insert_after) + 1].from_include
    /\ list.entries[Unwrap(insert_after) + 1].delimiter = Some(",")
    /\ IsSome(list.entries[Unwrap(insert_after) + 1].delimiter_pos)
    /\ list.entries[Unwrap(insert_after) + 2].start
          > Unwrap(list.entries[Unwrap(insert_after) + 1].delimiter_pos)

\* the entry is put right behind the comma of the anchor, after white space
\* only, and a comma follows it
IsAnchoredInsertion(old, new, list, insert_after, name) ==
    LET p == Unwrap(list.entries[Unwrap(insert_after) + 1].delimiter_pos) + 1
        span == InsertedSpan(old, new, p)
    IN  /\ IsSpliceAt(old, new, p)
        /\ span[Len(span)] = ","
        /\ IsEntryOf(DropWhitespace(SubSeq(span, 1, Len(span) - 1)), name)

\* the entry is put at the end of the list, with white space only between it
\* and the closing semicolon, and a comma goes before it iff the last entry
\* has none
IsAppendedInsertion(old, new, list, name) ==
    \E p \in 0..list.semicolon :
        LET span == InsertedSpan(old, new, p) IN
        /\ IsSpliceAt(old, new, p)
        /\ AllWhitespace(Slice(old, p, list.semicolon))
        /\ (Head(span) = ",") <=> (list.entries[Len(list.entries)].delimiter # Some(","))
        /\ IsEntryOf(DropWhitespace(IF Head(span) = "," THEN Tail(span) ELSE span), name)

\* C11: insert_new_unit splices the entry right behind the comma of the
\* anchor, followed by a comma of its own, exactly when the anchor is an
\* entry of the .dpr itself (not of an include), is delimited by ',' and is
\* followed by an entry that starts behind that comma; in every other case
\* it appends the entry at the end of the list in front of the closing
\* semicolon, preceded by a comma iff the last entry had none.
C11_AnchoredOrAppended ==
    pc = "inserted" =>
        IF AnchorIsValid(Unwrap(loc.list), args.insert_after)
        THEN IsAnchoredInsertion(loc.bytes, files[args.dpr_path], Unwrap(loc.list),
                                 args.insert_after, args.new_unit.name)
        ELSE IsAppendedInsertion(loc.bytes, files[args.dpr_path], Unwrap(loc.list),
                                 args.new_unit.name)

\* the entry went behind the comma of the first of several entries
C11_Witness ==
    /\ pc = "inserted"
    /\ args.insert_after = Some(0)
    /\ AnchorIsValid(Unwrap(loc.list), args.insert_after)
    /\ IsAnchoredInsertion(loc.bytes, files[args.dpr_path], Unwrap(loc.list),
                           args.insert_after, args.new_unit.name)
    /\ ~IsAppendedInsertion(loc.bytes, files[args.dpr_path], Unwrap(loc.list),
                            args.new_unit.name)

\* the anchor is an entry of the include file that ends with a comma there:
\* the entry was appended
C11_WitnessInclude ==
    /\ pc = "inserted"
    /\ IsSome(args.insert_after)
    /\ Unwrap(args.insert_after) + 2 <= Len(Unwrap(loc.list).entries)
    /\ Unwrap(loc.list).entries[Unwrap(args.insert_after) + 1].from_include
    /\ Unwrap(loc.list).entries[Unwrap(args.insert_after) + 1].delimiter = Some(",")
    /\ IsAppendedInsertion(loc.bytes, files[args.dpr_path], Unwrap(loc.list),
                           args.new_unit.name)

\* the offset behind the first "uses" of the text
ListStartOf(text) ==
    (CHOOSE k \in 1..Len(text) :
        /\ SubSeq(text, k, k + Len(kwUses) - 1) = kwUses
        /\ \A j \in 1..(k - 1) : SubSeq(text, j, j + Len(kwUses) - 1) # kwUses)
    + Len(kwUses) - 1

\* the uses list of the text, up to its semicolon, runs over several lines
IsMultiline(text, list) ==
    \E k \in (ListStartOf(text) + 1)..list.semicolon : text[k] = "\n"

\* CRLF when a CR LF pair occurs in the text, else LF
LineEndingOf(text) ==
    IF \E k \in 1..(Len(text) - 1) : SubSeq(text, k, k + 1) = <<"\r", "\n">>
    THEN <<"\r", "\n">> ELSE <<"\n">>

\* the offset at which the line of the offset start begins
LineOf(text, start) ==
    CHOOSE j \in 0..start :
        /\ j = 0 \/ text[j] = "\n"
        /\ \A k \in (j + 1)..start : text[k] # "\n"

\* the blanks and tabs that begin the line of the first entry
IndentOf(text, list) ==
    LET from == LineOf(text, list.entries[1].start)
        n == CHOOSE m \in 0..(list.entries[1].start - from) :
                /\ \A k \in 1..m : text[from + k] \in {" ", "\t"}
                /\ m < list.entries[1].start - from => text[from + m + 1] \notin {" ", "\t"}
    IN  SubSeq(text, from + 1, from + n)

\* the separator of the in-paths of the list: backslash when some in-path has
\* one, else slash when some in-path has one, else backslash
SeparatorOf(list) ==
    IF \E k \in 1..Len(list.entries) :
          IsSome(list.entries[k].in_path) /\ "\\" \in Range(Unwrap(list.entries[k].in_path))
    THEN "\\"
    ELSE IF \E k \in 1..Len(list.entries) :
          IsSome(list.entries[k].in_path) /\ "/" \in Range(Unwrap(list.entries[k].in_path))
    THEN "/"
    ELSE "\\"

\* the text between the first and the last quote of the span
QuotedPath(span) ==
    LET quotes == { k \in 1..Len(span) : span[k] = "'" } IN
    SubSeq(span, (CHOOSE k \in quotes : \A j \in quotes : k <= j) + 1,
                 (CHOOSE k \in quotes : \A j \in quotes : k >= j) - 1)

\* the span begins, after its comma if it has one, with the line ending and
\* the indent, and the entry follows them at once
IsOwnLine(span, line_ending, indent, name) ==
    LET body == IF Head(span) = "," THEN Tail(span) ELSE span IN
    /\ Len(body) > Len(line_ending) + Len(indent)
    /\ SubSeq(body, 1, Len(line_ending) + Len(indent)) = line_ending \o indent
    /\ IsEntryOf(SubSeq(body, Len(line_ending) + Len(indent) + 1, Len(body)), name)

\* C12: the path of the inserted entry holds one kind of separator, the one
\* found in the in-paths of the list (backslash when there is none); and an
\* entry appended to a list of several lines begins a line of its own, after
\* the line ending of the file (CRLF when a CR LF pair occurs in it, else LF)
\* and the indent of the line of the first entry.
C12_FormatKept ==
    pc = "inserted" =>
        \E p \in 0..Unwrap(loc.list).semicolon :
            LET span == InsertedSpan(loc.bytes, files[args.dpr_path], p) IN
            /\ IsSpliceAt(loc.bytes, files[args.dpr_path], p)
            /\ Range(QuotedPath(span)) \cap {"\\", "/"} = {SeparatorOf(Unwrap(loc.list))}
            /\ (IsMultiline(loc.bytes, Unwrap(loc.list))
                /\ ~AnchorIsValid(Unwrap(loc.list), args.insert_after)) =>
                    IsOwnLine(span, LineEndingOf(loc.bytes),
                              IndentOf(loc.bytes, Unwrap(loc.list)), args.new_unit.name)

\* an entry appended after CR LF and a tab, its path written with slashes
C12_Witness ==
    /\ pc = "inserted"
    /\ args.insert_after = None
    /\ IsMultiline(loc.bytes, Unwrap(loc.list))
    /\ LineEndingOf(loc.bytes) = <<"\r", "\n">>
    /\ IndentOf(loc.bytes, Unwrap(loc.list)) = <<"\t">>
    /\ SeparatorOf(Unwrap(loc.list)) = "/"
    /\ \E p \in 0..Unwrap(loc.list).semicolon :
          /\ IsSpliceAt(loc.bytes, files[args.dpr_path], p)
          /\ QuotedPath(InsertedSpan(loc.bytes, files[args.dpr_path], p))
                = <<".", ".", "/", "v", "/", "N", ".", "M", ".", "p", "a", "s">>

(***************************************************************************)
(* Properties of the failures of a run (Spec)                              *)
(***************************************************************************)
\* the unit files of the disk that fs::read cannot read
UnreadableUnits == { q \in DOMAIN disk : ~disk[q].readable }

\* the unit files that neither cache holds
OutsideCaches == { q \in DOMAIN disk : ~has_unit_path(unit_cache, delphi_unit_cache, q) }

\* C13: an I/O failure while one .dpr is processed never ends the run of
\* update_dpr_files: the run does not return Err, and the summary it returns
\* has counted every input path as scanned
C13_NeverAborts ==
    args.mode = "add" =>
        /\ pc # "aborted"
        /\ pc = "done" => summary.scanned = Len(args.dpr_paths)

\* update_dpr_files has returned Err: the .dpr names, by an in-path, a unit
\* outside both caches that cannot be read
C13_Witness ==
    /\ args.mode = "add" /\ pc = "aborted"
    /\ \E q \in UnreadableUnits \cap OutsideCaches :
          \E k \in 1..Len(Unwrap(ListBefore(args.dpr_paths[loc.idx])).entries) :
              LET entry == Unwrap(ListBefore(args.dpr_paths[loc.idx])).entries[k] IN
              /\ IsSome(entry.in_path)
              /\ resolve_dpr_unit_path(FS, args.dpr_paths[loc.idx], Unwrap(entry.in_path)) = q

\* the sequence sub occurs in the sequence s
Occurs(sub, s) == \E i \in 1..(Len(s) - Len(sub) + 1) : SubSeq(s, i, i + Len(sub) - 1) = sub

\* the text of the .dpr has no uses clause, or its uses clause expands the
\* include file and the include file holds a ';' (the include files of the
\* model have no comments and no strings)
IsParseFailure(dpr) ==
    /\ dpr \in DOMAIN files
    /\ \/ ~Occurs(kwUses, files[dpr])
       \/ Occurs(IncDirective, files[dpr]) /\ ";" \in Range(files[IncPath])

\* C14: a .dpr with no uses clause, or whose uses clause expands an include
\* fragment that contains a ';', is a parse failure: the step that reads it
\* writes no file, adds one to the failures and, in update_dpr_files, goes on
\* to the next .dpr
C14_ParseFailure ==
    [][ /\ (/\ args.mode = "add" /\ pc = "dpr_loop" /\ loc.idx <= Len(args.dpr_paths)
            /\ IsParseFailure(args.dpr_paths[loc.idx]))
           => /\ files' = files
              /\ summary'.failures = summary.failures + 1
              /\ pc' = "dpr_loop" /\ loc'.idx = loc.idx + 1
        /\ (args.mode = "fix" /\ pc = "fix_start" /\ IsParseFailure(FixPath))
           => /\ files' = files
              /\ summary'.failures = summary.failures + 1
              /\ pc' = "done" ]_vars

\* a .dpr whose include file ends its entry with ';' has been parsed, and an
\* entry has been written into it
C14_Witness ==
    /\ hist.run = 1 /\ hist.inserted # <<>>
    /\ Occurs(IncDirective, hist.before[DprPath])
    /\ ";" \in Range(files[IncPath])

\* the two parse failures that the code reports: both .dpr files were
\* counted, none was written
C14_WitnessReported ==
    /\ args.mode = "add" /\ pc = "done" /\ hist.run = 1
    /\ ~Occurs(kwUses, files[args.dpr_paths[1]])
    /\ summary.scanned = 2 /\ summary.failures = 2 /\ files = hist.before

(***************************************************************************)
(* SpecCache: the unit files of a disk, some of them unreadable, are       *)
(* loaded by load_unit_file, build_unit_cache and get_or_load              *)
(***************************************************************************)
\* the lists of paths that a scan hands to build_unit_cache
ScanLists == { <<PathA, PathB, PathC>>, <<PathB, PathA, PathD>>, <<PathA, PathA, PathN>> }

\* the files that may be unreadable
MaybeUnreadable == {PathA, PathB, PathC}

AllUnitPaths == {PathA, PathB, PathB2, PathC, PathD, PathN, PathO}

\* the result of the last call: the io::Error, the path, the record and the
\* warnings vector after the call (fs::read(path)? returns before anything
\* is pushed, and the unit files of the model have a unit statement, so
\* determine_unit_name pushes no warning)
NoCall == [err |-> FALSE, path |-> None, info |-> None, warnings |-> <<>>]

InitCache ==
    /\ files = <<>>
    /\ \E S \in EdgeSets, unreadable \in SUBSET MaybeUnreadable :
          disk = Corpus(AllUnitPaths, S, unreadable)
    /\ unit_cache = EmptyCache
    /\ delphi_unit_cache = None
    /\ \E paths \in ScanLists : args = [paths |-> paths]
    /\ pc = "ready"
    /\ loc = NoCall
    /\ summary = <<>>
    /\ hist = <<>>

\* load_unit_file(path, warnings)
CacheLoadFile ==
    /\ pc = "ready"
    /\ \E path \in AllUnitPaths :
          LET r == load_unit_file(FS, path) IN
          loc' = [err |-> r.err, path |-> Some(path), info |-> r.info, warnings |-> <<>>]
    /\ pc' = "file"
    /\ UNCHANGED <<files, disk, unit_cache, delphi_unit_cache, args, summary, hist>>

\* build_unit_cache(paths, warnings)
CacheBuild ==
    /\ pc = "ready"
    /\ LET r == build_unit_cache(FS, args.paths) IN
       /\ unit_cache' = r.cache
       /\ loc' = [err |-> r.err, path |-> None, info |-> None, warnings |-> <<>>]
    /\ pc' = "built"
    /\ UNCHANGED <<files, disk, delphi_unit_cache, args, summary, hist>>

\* get_or_load(cache, path, warnings) on the cache that was built
CacheGetOrLoad ==
    /\ pc = "built" /\ ~loc.err
    /\ \E path \in AllUnitPaths :
          LET r == get_or_load(FS, unit_cache, path) IN
          /\ unit_cache' = r.cache
          /\ loc' = [err |-> r.err, path |-> Some(path), info |-> r.info, warnings |-> <<>>]
    /\ pc' = "loaded"
    /\ UNCHANGED <<files, disk, delphi_unit_cache, args, summary, hist>>

NextCache == CacheLoadFile \/ CacheBuild \/ CacheGetOrLoad

SpecCache == InitCache /\ [][NextCache]_vars

(***************************************************************************)
(* Properties of the loading of unit files (SpecCache)                     *)
(***************************************************************************)
IsReadable(path) == path \in DOMAIN disk /\ disk[path].readable

\* C15: the load of a unit file that cannot be read gives a warning and no
\* record instead of an error: load_unit_file and get_or_load return no
\* error, the cache gains no entry for the path, and build_unit_cache
\* returns the cache of the readable paths of its list
C15_UnreadableIsWarning ==
    /\ (pc \in {"file", "loaded"} /\ ~IsReadable(Unwrap(loc.path))) =>
          /\ ~loc.err
          /\ IsNone(loc.info)
          /\ loc.warnings # <<>>
          /\ Unwrap(loc.path) \notin DOMAIN unit_cache.by_path
    /\ pc = "built" =>
          /\ ~loc.err
          /\ DOMAIN unit_cache.by_path = { q \in Range(args.paths) : IsReadable(q) }

\* build_unit_cache has met an unreadable file and has returned the error,
\* with readable files in the rest of its list
C15_Witness ==
    /\ pc = "built" /\ loc.err
    /\ \E k \in 1..Len(args.paths) :
          /\ ~IsReadable(args.paths[k])
          /\ \E j \in (k + 1)..Len(args.paths) : IsReadable(args.paths[j])

\* get_or_load has returned the error of an unreadable file
C15_WitnessGetOrLoad ==
    pc = "loaded" /\ loc.err /\ ~IsReadable(Unwrap(loc.path))

(***************************************************************************)
(* SpecResolve: resolve_by_name applied to a project cache and a fallback  *)
(* cache that may hold units of the same name                              *)
(***************************************************************************)
\* what the scan of the project roots finds
ProjectScans == { <<PathA, PathB>>, <<PathA, PathB, PathB2>>, <<PathA>>, <<PathC>>,
                  <<PathA, PathB2>> }

\* what the scan of the fallback roots finds
DelphiScans == { None, Some(<<PathD>>), Some(<<PathVB, PathD>>),
                 Some(<<PathVB, PathOB>>), Some(<<PathVB, PathVA>>) }

\* the names that are resolved
ResolvedNames == { <<"A">>, <<"a">>, <<"B">>, <<"b">>, <<"C">>, <<"D">>, <<"Z">> }

InitResolve ==
    /\ files = <<>>
    /\ disk = Corpus(DOMAIN UnitNames, {}, {})
    /\ \E scan \in ProjectScans : unit_cache = build_unit_cache(FS, scan).cache
    /\ \E scan \in DelphiScans :
          delphi_unit_cache = IF IsSome(scan)
                              THEN Some(build_unit_cache(FS, Unwrap(scan)).cache)
                              ELSE None
    /\ args = <<>>
    /\ pc = "ready"
    /\ loc = <<>>
    /\ summary = <<>>
    /\ hist = <<>>

\* resolve_by_name(project_cache, delphi_cache, unit_name)
ResolveName ==
    /\ \E unit_name \in ResolvedNames :
          loc' = [unit_name |-> unit_name,
                  result |-> resolve_by_name(unit_cache, delphi_unit_cache, unit_name)]
    /\ pc' = "resolved"
    /\ UNCHANGED <<files, disk, unit_cache, delphi_unit_cache, args, summary, hist>>

NextResolve == ResolveName

SpecResolve == InitResolve /\ [][NextResolve]_vars

(***************************************************************************)
(* Properties of the resolution of a name (SpecResolve)                    *)
(***************************************************************************)
\* the bucket of the name in a cache, <<>> when there is none
BucketOf(cache, unit_name) ==
    IF to_ascii_lowercase(unit_name) \in DOMAIN cache.by_name
    THEN cache.by_name[to_ascii_lowercase(unit_name)] ELSE <<>>

ProjectBucket == BucketOf(unit_cache, loc.unit_name)

DelphiBucket ==
    IF IsSome(delphi_unit_cache) THEN BucketOf(Unwrap(delphi_unit_cache), loc.unit_name)
    ELSE <<>>

\* the answer that the bucket of one cache gives
AnswerOf(bucket, source, result) ==
    /\ result.kind # "NotFound"
    /\ result.source = source
    /\ IF Len(bucket) > 1
       THEN result.kind = "Ambiguous" /\ result.count = Len(bucket)
       ELSE result.kind = "Unique" /\ result.path = bucket[1]

\* C16: resolve_by_name answers from the project cache whenever the project
\* cache has a bucket for the lowercased name, also an ambiguous one, and
\* from the fallback cache only when it has none; without any bucket the
\* name is not found
C16_ProjectFirst ==
    pc = "resolved" =>
        IF ProjectBucket # <<>> THEN AnswerOf(ProjectBucket, "Project", loc.result)
        ELSE IF DelphiBucket # <<>> THEN AnswerOf(DelphiBucket, "Delphi", loc.result)
        ELSE loc.result.kind = "NotFound"

\* a name with an ambiguous project bucket and a fallback bucket was resolved
C16_Witness ==
    /\ pc = "resolved"
    /\ Len(ProjectBucket) > 1 /\ DelphiBucket # <<>>
    /\ loc.result.kind = "Ambiguous" /\ loc.result.source = "Project"

\* a name with a single project path and a fallback bucket was resolved to
\* the project path
C16_WitnessUnique ==
    /\ pc = "resolved"
    /\ Len(ProjectBucket) = 1 /\ DelphiBucket # <<>>
    /\ loc.result.kind = "Unique" /\ loc.result.path \notin Range(DelphiBucket)

\* a name without a project bucket was resolved to a fallback path
C16_WitnessFallback ==
    /\ pc = "resolved"
    /\ ProjectBucket = <<>> /\ loc.result.kind = "Unique"
    /\ loc.result.path \in Range(DelphiBucket)

(***************************************************************************)
(* Properties of what a run reads and writes (Spec)                        *)
(***************************************************************************)
\* the .dpr that the run is editing
CurrentDpr ==
    IF args.mode = "fix" THEN FixPath
    ELSE IF loc.idx <= Len(args.dpr_paths) THEN args.dpr_paths[loc.idx]
    ELSE args.dpr_paths[Len(args.dpr_paths)]

\* the file beside the .dpr with the same stem and the extension tmp (the
\* names of the .dpr files of the model end with "dpr")
SiblingTmp(dpr) ==
    Parent(dpr) \o << SubSeq(dpr[Len(dpr)], 1, Len(dpr[Len(dpr)]) - 3) \o <<"t", "m", "p">> >>

\* C17: a step of update_dpr_files or of fix_dpr_file changes no file but
\* the .dpr being edited and its sibling .tmp: every other file, the include
\* file and the unit files among them, stays as it is, and so do the project
\* cache and the fallback cache
C17_EditFrame ==
    [][ /\ disk' = disk
        /\ unit_cache' = unit_cache
        /\ delphi_unit_cache' = delphi_unit_cache
        /\ \A f \in (DOMAIN files \cup DOMAIN files') \ {CurrentDpr, SiblingTmp(CurrentDpr)} :
              f \in DOMAIN files /\ f \in DOMAIN files' /\ files'[f] = files[f] ]_vars

\* a .dpr whose uses clause expands the include file was edited
C17_Witness ==
    /\ hist.inserted # <<>>
    /\ Occurs(IncDirective, hist.before[DprPath])
    /\ ";" \notin Range(files[IncPath])
    /\ DprPath \in DOMAIN files /\ files[DprPath] # hist.before[DprPath]
    /\ files[IncPath] = hist.before[IncPath]

(***************************************************************************)
(* main.rs: the exit status of a run whose invocation was accepted and     *)
(* whose scan and caches were built (--fix-updated-dprs is not given)      *)
(***************************************************************************)
\* exit_with_error(message, code): process::exit(code)
exit_with_error(code) == code

\* the end of run_add_dependency and of run_fix_dpr: err is the Err of
\* update_dpr_files or of fix_dpr_file, failures is dpr_summary.failures; a
\* main that returns exits with status 0
run_exit_status(err, failures) ==
    IF err THEN exit_with_error(1)
    ELSE IF failures > 0 THEN 1
    ELSE 0

\* the run has ended, with a summary or with an error
RunEnded == pc \in {"done", "aborted"}

\* the status with which the process of the run exits
ExitStatus == run_exit_status(pc = "aborted", summary.failures)

\* C18: a run that completed its scan exits with status 1 if and only if the
\* count of per-file failures is greater than zero, and with status 0
\* otherwise
C18_ExitStatus ==
    RunEnded =>
        /\ ExitStatus = 1 <=> summary.failures > 0
        /\ ExitStatus \in {0, 1}

\* the run has exited with status 1 and has counted no failure
C18_Witness ==
    RunEnded /\ ExitStatus = 1 /\ summary.failures = 0

\* the runs that return a summary: status 1 with failures, status 0 without
C18_WitnessFailures ==
    pc = "done" /\ summary.failures > 0 /\ ExitStatus = 1

C18_WitnessClean ==
    pc = "done" /\ summary.failures = 0 /\ summary.updated > 0 /\ ExitStatus = 0

\* insert_new_unit is about to be called on the .dpr being edited
AboutToInsert ==
    \/ pc = "insert_new"
    \/ /\ pc = "insert_dep" /\ loc.pending # <<>>
       /\ ~HasEntry(Unwrap(loc.current_list), Head(loc.pending).name)
    \/ pc = "fix_insert" /\ loc.pending # <<>>

\* C19: every call of insert_new_unit receives the bytes that the .dpr has
\* on disk and the UsesList parsed from those bytes: after a write the file
\* was read and parsed again before the next write
C19_ReparsedBeforeWrite ==
    AboutToInsert =>
        /\ CurrentDpr \in DOMAIN files
        /\ loc.current_bytes = files[CurrentDpr]
        /\ loc.current_list = parse_dpr_uses(FS, CurrentDpr, files[CurrentDpr], <<>>).list

\* a second insertion into a .dpr that this run has already written
C19_Witness ==
    /\ AboutToInsert /\ loc.dpr_updated
    /\ hist.inserted # <<>>
    /\ hist.inserted[Len(hist.inserted)].dpr = CurrentDpr
    /\ files[CurrentDpr] # hist.before[CurrentDpr]

(***************************************************************************)
(* Properties of the choice of the anchor (Spec)                           *)
(***************************************************************************)
\* the 1-based indices of the entries of the list that are not
\* include-sourced, are bound by the project map and whose unit names the
\* new unit in its uses
DirectEntries(list, project_map, unit) ==
    { k \in 1..Len(list.entries) :
        /\ ~list.entries[k].from_include
        /\ to_ascii_lowercase(list.entries[k].name) \in DOMAIN project_map
        /\ NamesUnit(project_map[to_ascii_lowercase(list.entries[k].name)], unit) }

\* C20: the anchor of the insertion of the new unit is the first entry, in
\* file order, that is not include-sourced, is bound by the project map and
\* is a direct importer of the new unit; an entry that is only a transitive
\* dependent is never the anchor; without such an entry there is no anchor
C20_AnchorIsFirstDirect ==
    pc = "insert_new" =>
        LET found == DirectEntries(Unwrap(loc.current_list), loc.project_map, args.new_unit)
        IN  IF found = {} THEN loc.insert_after = None
            ELSE /\ IsSome(loc.insert_after)
                 /\ Unwrap(loc.insert_after) + 1 \in found
                 /\ \A j \in found : Unwrap(loc.insert_after) + 1 <= j

\* the anchor is the second entry: the first entry is bound by the project
\* map and is a transitive dependent that does not name the new unit
C20_Witness ==
    /\ pc = "insert_new" /\ loc.insert_after = Some(1)
    /\ to_ascii_lowercase(Unwrap(loc.current_list).entries[1].name) \in DOMAIN loc.project_map
    /\ 1 \notin DirectEntries(Unwrap(loc.current_list), loc.project_map, args.new_unit)
    /\ IsTransitiveDependent(loc.project_map, loc.project_map[to_ascii_lowercase(Unwrap(loc.current_list).entries[1].name)], args.new_unit)

\* the new unit is to be inserted and no entry is a direct importer
C20_WitnessNoAnchor ==
    /\ pc = "insert_new" /\ loc.insert_after = None
    /\ Unwrap(loc.current_list).entries # <<>>

(***************************************************************************)
(* Properties of the marks of compute_project_dependents (Spec)            *)
(***************************************************************************)
\* the ProjectDependents that update_dpr_files has computed for the .dpr
\* whose insertion is about to be made
DependentsNow ==
    compute_project_dependents(FS, unit_cache, delphi_unit_cache, loc.project_map,
                               args.new_unit, <<>>)

\* the units that the .dpr declares: the paths of the project map
DeclaredPaths == { loc.project_map[k] : k \in DOMAIN loc.project_map }

\* the units flagged direct
FlaggedDirect ==
    { DependentsNow.id_by_path[k] :
        k \in { j \in 1..Len(DependentsNow.direct) : DependentsNow.direct[j] } }

\* C21, as stated: the unit flagged direct is the seed, so that every unit
\* flagged direct is a unit of the project map
C21_DirectIsSeed ==
    pc = "insert_new" => FlaggedDirect \subseteq DeclaredPaths

\* C21, amended: the unit flagged direct is the visited unit whose own uses
\* list names the new unit (ASCII case-insensitive), be it a unit of the
\* project map or a unit reached from one through uses
C21_DirectIsVisited ==
    pc = "insert_new" =>
        \A k \in 1..Len(DependentsNow.id_by_path) :
            DependentsNow.direct[k] <=> NamesUnit(DependentsNow.id_by_path[k], args.new_unit)

\* a unit outside the project map is flagged direct, and no unit of the
\* project map is
C21_Witness ==
    /\ pc = "insert_new"
    /\ FlaggedDirect # {}
    /\ FlaggedDirect \cap DeclaredPaths = {}

(***************************************************************************)
(* Properties of a .dpr that already declares the new unit (SpecDeclared)  *)
(***************************************************************************)
\* the uses list of the .dpr, as the run found it, has an entry with the
\* name, compared without regard to ASCII case
DeclaredBefore(dpr, name) ==
    /\ IsSome(ListBefore(dpr))
    /\ \E k \in 1..Len(Unwrap(ListBefore(dpr)).entries) :
          to_ascii_lowercase(Unwrap(ListBefore(dpr)).entries[k].name)
              = to_ascii_lowercase(name)

\* the entries that the run has inserted into the .dpr
InsertedEntries(dpr) ==
    { hist.inserted[i] : i \in { j \in 1..Len(hist.inserted) : hist.inserted[j].dpr = dpr } }

C22_WitnessDisabled ==
    /\ args.mode = "add" /\ pc = "done" /\ hist.run = 1
    /\ ~args.add_introduced_dependencies
    /\ DeclaredBefore(DprPath, args.new_unit.name)
    /\ files = hist.before /\ summary.updated = 0

(***************************************************************************)
(* SpecWalk: the three traversals of the uses graph, one expansion of a    *)
(* unit per step, over unit files whose uses form cycles                   *)
(***************************************************************************)
\* the uses a unit file of SpecWalk may contain
WalkEdges == << [from |-> PathA, name |-> <<"B">>],
                [from |-> PathB, name |-> <<"a">>],
                [from |-> PathA, name |-> <<"A">>],
                [from |-> PathB, name |-> <<"C">>],
                [from |-> PathC, name |-> <<"B">>],
                [from |-> PathC, name |-> <<"N">>],
                [from |-> PathN, name |-> <<"C">>] >>

\* the number of uses in the corpus of SpecWalk
MaxWalkEdges == 3

WalkPaths == {PathA, PathB, PathC, PathN}

\* the number of expansions after which a traversal is stopped
MaxExpanded == Cardinality(WalkPaths) + 2

WalkUses(path, S) ==
    Bind(SelectSeq([k \in 1..Len(WalkEdges) |-> k],
                   LAMBDA k : k \in S /\ WalkEdges[k].from = path),
         LAMBDA ks : [j \in 1..Len(ks) |-> WalkEdges[ks[j]].name])

WalkCorpus(S) == [q \in WalkPaths |-> [name |-> UnitNames[q], uses |-> WalkUses(q, S), readable |-> TRUE]]

\* the project map of a .dpr that declares A, and of one that declares A
\* and C
WalkMaps == { (<<"a">> :> PathA), (<<"a">> :> PathA) @@ (<<"c">> :> PathC) }

\* the traversal as it begins: the walk record of the loop, the units it has
\* expanded and the units it has put on its queue
WalkStart(kind, project_map) ==
    [kind |-> kind,
     w |-> CASE kind = "dependents" ->
                  Bind(SetToSeq({project_map[k] : k \in DOMAIN project_map}), LAMBDA paths :
                      [ids |-> paths, rev |-> Repeat(<<>>, Len(paths)),
                       direct |-> Repeat(FALSE, Len(paths)), queue |-> paths,
                       warnings |-> <<>>, err |-> FALSE])
             [] kind = "introduced" ->
                  [queue |-> <<PathN>>, seen_paths |-> {PathN}, seen_names |-> {},
                   introduced |-> <<>>, warnings |-> <<>>, err |-> FALSE]
             [] kind = "missing" ->
                  Bind(SetToSeq({project_map[k] : k \in DOMAIN project_map}), LAMBDA paths :
                      [queue |-> paths, seen_paths |-> Range(paths), missing_names |-> {},
                       missing_units |-> <<>>, warnings |-> <<>>]),
     expanded |-> <<>>,
     enqueued |-> IF kind = "introduced" THEN <<PathN>>
                  ELSE SetToSeq({project_map[k] : k \in DOMAIN project_map})]

InitWalk ==
    /\ files = <<>>
    /\ \E S \in { T \in SUBSET (1..Len(WalkEdges)) : Cardinality(T) <= MaxWalkEdges } :
          disk = WalkCorpus(S)
    /\ unit_cache = build_unit_cache([text |-> <<>>, units |-> disk], <<PathA, PathB, PathC, PathN>>).cache
    /\ delphi_unit_cache = None
    /\ \E project_map \in WalkMaps, kind \in {"dependents", "introduced", "missing"} :
          /\ args = [project_map |-> project_map,
                     new_unit |-> unit_cache.by_path[PathN],
                     existing_names |-> DOMAIN project_map]
          /\ loc = WalkStart(kind, project_map)
    /\ pc = "walk"
    /\ summary = <<>>
    /\ hist = <<>>

\* the walk record w after the step, with the unit that was expanded and
\* the units that the step has pushed
Walked(w) ==
    /\ loc' = [loc EXCEPT !.w = w,
                          !.expanded = Append(@, Head(loc.w.queue)),
                          !.enqueued = @ \o SubSeq(w.queue, Len(loc.w.queue), Len(w.queue))]
    /\ UNCHANGED <<files, disk, unit_cache, delphi_unit_cache, args, pc, summary, hist>>

\* one iteration of the queue loop of compute_project_dependents
WalkDependents ==
    /\ pc = "walk" /\ loc.kind = "dependents"
    /\ loc.w.queue # <<>> /\ Len(loc.expanded) < MaxExpanded
    /\ Walked(DependentsUses(args.project_map, unit_cache, delphi_unit_cache, args.new_unit,
                             Head(loc.w.queue), IdOf(loc.w.ids, Head(loc.w.queue)),
                             Unwrap(load_unit_uses(FS, unit_cache, delphi_unit_cache,
                                                   Head(loc.w.queue)).uses),
                             [loc.w EXCEPT !.queue = Tail(@)]))

\* one iteration of the queue loop of collect_introduced_dependencies
WalkIntroduced ==
    /\ pc = "walk" /\ loc.kind = "introduced"
    /\ loc.w.queue # <<>> /\ Len(loc.expanded) < MaxExpanded
    /\ Walked(IntroducedUses(FS, args.project_map, unit_cache, delphi_unit_cache,
                             args.new_unit, PathN, Head(loc.w.queue),
                             Unwrap(load_unit_uses(FS, unit_cache, delphi_unit_cache,
                                                   Head(loc.w.queue)).uses),
                             [loc.w EXCEPT !.queue = Tail(@)]))

\* one iteration of the queue loop of collect_missing_dpr_dependencies
WalkMissing ==
    /\ pc = "walk" /\ loc.kind = "missing"
    /\ loc.w.queue # <<>> /\ Len(loc.expanded) < MaxExpanded
    /\ Walked(MissingUses(FS, args.existing_names, unit_cache, delphi_unit_cache,
                          Head(loc.w.queue),
                          Unwrap(lookup_unit_info(unit_cache, delphi_unit_cache,
                                                  Head(loc.w.queue))).uses,
                          [loc.w EXCEPT !.queue = Tail(@)]))

\* the queue is empty: the traversal returns
WalkEnd ==
    /\ pc = "walk" /\ loc.w.queue = <<>>
    /\ pc' = "walked"
    /\ UNCHANGED <<files, disk, unit_cache, delphi_unit_cache, args, loc, summary, hist>>

NextWalk == WalkDependents \/ WalkIntroduced \/ WalkMissing \/ WalkEnd

\* a traversal that can take a step takes it
SpecWalk == InitWalk /\ [][NextWalk]_vars /\ WF_vars(NextWalk)

(***************************************************************************)
(* Properties of the traversals (SpecWalk)                                 *)
(***************************************************************************)
\* no element occurs twice in the sequence
NoRepeat(seq) == \A i, j \in 1..Len(seq) : seq[i] = seq[j] => i = j

\* C23: on a uses graph with cycles and with units that use themselves,
\* each of the three traversals puts a unit path on its queue at most once,
\* expands it at most once, and ends
C23_WalkEnds ==
    /\ [](NoRepeat(loc.enqueued) /\ NoRepeat(loc.expanded))
    /\ <>(pc = "walked")

\* the unit at path uses the name
WalkUsesName(path, name) == \E k \in 1..Len(disk[path].uses) : disk[path].uses[k] = name

\* a traversal has ended that went round a cycle: A uses B, B uses A, and
\* both were expanded
C23_Witness ==
    /\ pc = "walked"
    /\ WalkUsesName(PathA, <<"B">>) /\ WalkUsesName(PathB, <<"a">>)
    /\ {PathA, PathB} \subseteq Range(loc.expanded)

\* a traversal has ended that expanded a unit that uses itself
C23_WitnessSelf ==
    /\ pc = "walked" /\ loc.kind = "missing"
    /\ WalkUsesName(PathA, <<"A">>) /\ PathA \in Range(loc.expanded)

(***************************************************************************)
(* SpecMap: build_project_map over the uses list of a .dpr, one entry of   *)
(* the list per step                                                       *)
(***************************************************************************)
\* A in 'A.pas'
EntryAHere == <<"A", " ", "i", "n", " ", "'", "A", ".", "p", "a", "s", "'">>
\* a in 's\B.pas'
EntryAOther == <<"a", " ", "i", "n", " ", "'", "s", "\\", "B", ".", "p", "a", "s", "'">>
\* B in 's\B.pas'
EntryBHere == <<"B", " ", "i", "n", " ", "'", "s", "\\", "B", ".", "p", "a", "s", "'">>
\* b in 'gone.pas'
EntryBGone == <<"b", " ", "i", "n", " ", "'", "g", "o", "n", "e", ".", "p", "a", "s", "'">>
\* A in 'gone.pas'
EntryAGone == <<"A", " ", "i", "n", " ", "'", "g", "o", "n", "e", ".", "p", "a", "s", "'">>

\* the entries a uses list of SpecMap is written from
MapEntryTexts == { EntryAHere, EntryAOther, EntryBHere, EntryBGone, EntryAGone,
                   <<"B">>, <<"Z">> }

\* the number of entries of a uses list of SpecMap
MaxMapEntries == 2

RECURSIVE JoinEntries(_)
JoinEntries(texts) ==
    IF Len(texts) = 1 THEN texts[1]
    ELSE texts[1] \o <<",", " ">> \o JoinEntries(Tail(texts))

\* program P; uses <entries>; end.
MapText(texts) ==
    <<"p", "r", "o", "g", "r", "a", "m", " ", "P", ";", "\n">>
    \o kwUses \o <<" ">> \o JoinEntries(texts) \o <<";", "\n", "e", "n", "d", ".">>

MapLists ==
    UNION { { t \in [1..n -> MapEntryTexts] : \A i, j \in 1..n : t[i] = t[j] => i = j }
            : n \in 1..MaxMapEntries }

MapProjectScans == { <<PathA, PathB>>, <<PathA, PathB, PathB2>>, <<PathA>> }

MapDelphiScans == { None, Some(<<PathVB, PathD>>) }

InitMap ==
    /\ \E texts \in MapLists : files = (DprPath :> MapText(texts))
    /\ disk = Corpus(DOMAIN UnitNames, {}, {})
    /\ \E scan \in MapProjectScans : unit_cache = build_unit_cache(FS, scan).cache
    /\ \E scan \in MapDelphiScans :
          delphi_unit_cache = IF IsSome(scan)
                              THEN Some(build_unit_cache(FS, Unwrap(scan)).cache)
                              ELSE None
    /\ args = <<>>
    /\ pc = "map"
    /\ loc = [entries |-> Unwrap(parse_dpr_uses(FS, DprPath, files[DprPath], <<>>).list).entries,
              done |-> <<>>, map |-> <<>>, warnings |-> <<>>]
    /\ summary = <<>>
    /\ hist = <<>>

\* one iteration of the loop of build_project_map
MapEntry ==
    /\ pc = "map" /\ loc.entries # <<>>
    /\ Bind(ProjectEntry(FS, Head(loc.entries), DprPath, unit_cache, delphi_unit_cache,
                         loc.map, loc.warnings), LAMBDA r :
          loc' = [entries |-> Tail(loc.entries), done |-> Append(loc.done, Head(loc.entries)),
                  map |-> r.map, warnings |-> r.warnings])
    /\ UNCHANGED <<files, disk, unit_cache, delphi_unit_cache, args, pc, summary, hist>>

\* build_project_map returns the map
MapReturn ==
    /\ pc = "map" /\ loc.entries = <<>>
    /\ pc' = "mapped"
    /\ UNCHANGED <<files, disk, unit_cache, delphi_unit_cache, args, loc, summary, hist>>

NextMap == MapEntry \/ MapReturn

SpecMap == InitMap /\ [][NextMap]_vars

(***************************************************************************)
(* Properties of the project map (SpecMap)                                 *)
(***************************************************************************)
\* the units that the project-then-fallback lookup finds under the name
LookupBucket(name) ==
    Bind(to_ascii_lowercase(name), LAMBDA key :
        IF key \in DOMAIN unit_cache.by_name THEN unit_cache.by_name[key]
        ELSE IF IsSome(delphi_unit_cache) /\ key \in DOMAIN Unwrap(delphi_unit_cache).by_name
        THEN Unwrap(delphi_unit_cache).by_name[key]
        ELSE <<>>)

\* the in-path of the entry names a file
OwnPathExists(entry) ==
    IsSome(entry.in_path) /\ is_file(FS, resolve_dpr_unit_path(FS, DprPath, Unwrap(entry.in_path)))

\* the path the entry stands for: its own in-path when that is a file,
\* else the one unit the lookup finds, else nothing
PathOfEntry(entry) ==
    IF OwnPathExists(entry)
    THEN Some(resolve_dpr_unit_path(FS, DprPath, Unwrap(entry.in_path)))
    ELSE IF Len(LookupBucket(entry.name)) = 1 THEN Some(LookupBucket(entry.name)[1])
    ELSE None

\* the map binds the name of the entry to exactly what the entry stands for
BoundAsDeclared(entry) ==
    Bind(to_ascii_lowercase(entry.name), LAMBDA key :
        IF IsSome(PathOfEntry(entry))
        THEN key \in DOMAIN loc.map /\ loc.map[key] = Unwrap(PathOfEntry(entry))
        ELSE key \notin DOMAIN loc.map)

\* C24 as stated: every entry the loop has handled is bound to its own
\* existing in-path, else to the unique result of the lookup, else not at all
C24_EveryEntryBound ==
    pc \in {"map", "mapped"} => \A k \in 1..Len(loc.done) : BoundAsDeclared(loc.done[k])

\* the entry at k is the first handled entry of its name that stands for a path
FirstOfName(k) ==
    /\ IsSome(PathOfEntry(loc.done[k]))
    /\ \A j \in 1..(k - 1) :
          to_ascii_lowercase(loc.done[j].name) = to_ascii_lowercase(loc.done[k].name)
          => IsNone(PathOfEntry(loc.done[j]))

\* C24: each name is bound to what the first entry of that name that stands
\* for a path stands for (its own existing in-path, else the unique result
\* of the lookup); a name none of whose entries stands for a path is not bound
C24_FirstEntryBound ==
    pc \in {"map", "mapped"} =>
        /\ \A k \in 1..Len(loc.done) :
              FirstOfName(k) =>
                  /\ to_ascii_lowercase(loc.done[k].name) \in DOMAIN loc.map
                  /\ loc.map[to_ascii_lowercase(loc.done[k].name)] = Unwrap(PathOfEntry(loc.done[k]))
        /\ \A key \in DOMAIN loc.map :
              \E k \in 1..Len(loc.done) :
                  FirstOfName(k) /\ to_ascii_lowercase(loc.done[k].name) = key

\* the map is built from two entries of one name with different existing
\* in-paths
C24_Witness ==
    /\ pc = "mapped" /\ Len(loc.done) = 2
    /\ to_ascii_lowercase(loc.done[1].name) = to_ascii_lowercase(loc.done[2].name)
    /\ OwnPathExists(loc.done[1]) /\ OwnPathExists(loc.done[2])
    /\ PathOfEntry(loc.done[1]) # PathOfEntry(loc.done[2])

\* an entry whose in-path is no file is bound through the lookup
C24_WitnessFallback ==
    /\ pc = "mapped"
    /\ \E k \in 1..Len(loc.done) :
          /\ IsSome(loc.done[k].in_path) /\ ~OwnPathExists(loc.done[k])
          /\ to_ascii_lowercase(loc.done[k].name) \in DOMAIN loc.map

\* an entry whose name is ambiguous leaves its name without a binding
C24_WitnessAmbiguous ==
    /\ pc = "mapped"
    /\ \E k \in 1..Len(loc.done) :
          /\ ~OwnPathExists(loc.done[k]) /\ Len(LookupBucket(loc.done[k].name)) > 1
          /\ to_ascii_lowercase(loc.done[k].name) \notin DOMAIN loc.map

(***************************************************************************)
(* Properties of the order of the chained insertions (Spec)                *)
(***************************************************************************)
\* the names that the run has inserted into the .dpr, in the order of the
\* insertions
InsertedSeq(dpr) ==
    Bind(SelectSeq(hist.inserted, LAMBDA e : e.dpr = dpr), LAMBDA ins :
        [k \in 1..Len(ins) |-> ins[k].name])

\* the entries of the .dpr as the file stands
EntriesNow(dpr) ==
    IF dpr \notin DOMAIN files THEN <<>>
    ELSE Bind(parse_dpr_uses(FS, dpr, files[dpr], <<>>).list, LAMBDA l :
            IF IsSome(l) THEN Unwrap(l).entries ELSE <<>>)

\* the names stand in the entries one behind the other, beginning at some
\* place of the list
StandTogether(entries, names) ==
    \E p \in 0..Len(entries) :
        /\ p + Len(names) <= Len(entries)
        /\ \A i \in 1..Len(names) : entries[p + i].name = names[i]

\* the number of uses steps that lead from the new unit to the unit at
\* path, -1 when none does: S holds the units that n steps reach
RECURSIVE IntroducedDepth(_, _, _, _)
IntroducedDepth(map, S, path, n) ==
    IF path \in S THEN n
    ELSE Bind(S \cup { Unwrap(u[2]) : u \in UNION { IntroducedUsesOf(map, q) : q \in S } },
              LAMBDA T : IF T = S THEN 0 - 1 ELSE IntroducedDepth(map, T, path, n + 1))

\* the list of introduced units, or what is left of it, is in the order of
\* a breadth-first discovery, holds no name twice and not the new unit
DiscoveryOrder(pending) ==
    /\ \A i, j \in 1..Len(pending) :
          i < j => /\ IntroducedDepth(loc.project_map, {args.new_unit.path}, pending[i].path, 0)
                        <= IntroducedDepth(loc.project_map, {args.new_unit.path}, pending[j].path, 0)
                   /\ to_ascii_lowercase(pending[i].name) # to_ascii_lowercase(pending[j].name)
    /\ \A i \in 1..Len(pending) :
          /\ ~eq_ignore_ascii_case(pending[i].name, args.new_unit.name)
          /\ IntroducedDepth(loc.project_map, {args.new_unit.path}, pending[i].path, 0) > 0

\* the insertions into the .dpr followed the order of the list from which
\* they were taken: each one took the head of what was left
InsertedHead ==
    (pc \in {"insert_dep", "fix_insert"} /\ loc.pending # <<>>
     /\ hist'.inserted # hist.inserted) =>
        hist'.inserted[Len(hist'.inserted)].name = Head(loc.pending).name

\* the run has ended and each .dpr holds the entries inserted into it one
\* behind the other, in the order of their insertion
InsertedTogether ==
    pc = "done" =>
        \A k \in 1..Len(args.dpr_paths) :
            args.dpr_paths[k] \in DOMAIN files =>
                StandTogether(EntriesNow(args.dpr_paths[k]),
                              InsertedSeq(args.dpr_paths[k]))

\* InsertedTogether for the projects whose lists do not end with a line
\* comment
InsertedTogetherElsewhere ==
    (pc = "done" /\ hist.run = 1) =>
        \A k \in 1..Len(args.dpr_paths) :
            (args.dpr_paths[k] \in DOMAIN files
             /\ ~EndsWithLineComment(hist.before[args.dpr_paths[k]])) =>
                StandTogether(EntriesNow(args.dpr_paths[k]), InsertedSeq(args.dpr_paths[k]))

\* C25: collect_introduced_dependencies returns the introduced units in the
\* order of a breadth-first discovery, without the new unit and without a
\* name twice; the insertions take the units in that order; and after the
\* run the inserted entries stand in the uses list of the .dpr one behind
\* the other, in the order of their insertion
C25_ChainedOrder ==
    /\ [](pc = "insert_dep" => DiscoveryOrder(loc.pending))
    /\ [][InsertedHead]_vars
    /\ []InsertedTogether

\* a run of fix-dpr has ended without a failure, and the unit it inserted
\* is no entry of the list: it was written behind the line comment that
\* ended the list
C25_Witness ==
    /\ args.mode = "fix" /\ pc = "done" /\ hist.run = 1 /\ summary.failures = 0
    /\ EndsWithLineComment(hist.before[DprPath])
    /\ Len(InsertedSeq(DprPath)) > 0
    /\ \A k \in 1..Len(EntriesNow(DprPath)) :
          EntriesNow(DprPath)[k].name # InsertedSeq(DprPath)[1]

\* two units were inserted one after the other and stand together
C25_WitnessChained ==
    /\ pc = "done" /\ hist.run = 1 /\ summary.failures = 0
    /\ Len(InsertedSeq(DprPath)) >= 2
    /\ ~EndsWithLineComment(hist.before[DprPath])
    /\ StandTogether(EntriesNow(DprPath), InsertedSeq(DprPath))

(***************************************************************************)
(* SpecStack: with_include_bytes and its callback, one include directive   *)
(* per step.  The callback reads the directives of the included file from  *)
(* left to right and calls with_include_bytes for each.                    *)
(***************************************************************************)
Inc3Path == RootDir \o << Ext(<<"z">>, <<"i", "n", "c">>) >>
Inc3Directive == <<"{", "$", "I", " ">> \o Ext(<<"z">>, <<"i", "n", "c">>) \o <<"}">>
\* a directive that names x.inc by way of the parent directory
IncDotsDirective ==
    <<"{", "$", "I", " ", ".", ".", "\\", "r", "\\">> \o IncText \o <<"}">>
\* a directive that names a file that does not exist
IncMissingDirective == <<"{", "$", "I", " ">> \o Ext(<<"m">>, <<"i", "n", "c">>) \o <<"}">>

StackDprTexts == { IncDirective \o <<",">> \o Inc2Directive,
                   IncDirective,
                   Inc2Directive \o <<",">> \o IncDotsDirective,
                   IncMissingDirective \o <<",">> \o IncDirective }
StackIncTexts == { Inc3Directive, <<"A">>, IncDirective, IncDotsDirective, DprDirective }
StackInc2Texts == { Inc3Directive, IncDirective, <<"B">> }
StackInc3Texts == { <<"C">>, IncDirective, Inc2Directive }

\* the names of the include directives of the bytes from offset i on, from
\* left to right
RECURSIVE IncludesOf(_, _)
IncludesOf(bytes, i) ==
    IF i >= Len(bytes) THEN <<>>
    ELSE Bind(parse_include_directive(bytes, i), LAMBDA d :
            IF IsSome(d) THEN <<Unwrap(d)[1]>> \o IncludesOf(bytes, Unwrap(d)[2])
            ELSE IncludesOf(bytes, i + 1))

\* the call of the callback for the file at path: the directives it has yet
\* to handle, and the stack that its with_include_bytes was called with
StackFrame(path, bytes, found) == [path |-> path, todo |-> IncludesOf(bytes, 0), found |-> found]

InitStack ==
    /\ \E t \in StackDprTexts, x \in StackIncTexts, y \in StackInc2Texts, z \in StackInc3Texts :
          files = (DprPath :> t) @@ (IncPath :> x) @@ (Inc2Path :> y) @@ (Inc3Path :> z)
    /\ disk = <<>>
    /\ unit_cache = EmptyCache
    /\ delphi_unit_cache = None
    /\ args = [dpr_path |-> DprPath]
    /\ pc = "parse"
    /\ loc = [frames |-> <<StackFrame(DprPath, files[DprPath], <<>>)>>,
              include_stack |-> <<canonicalize_if_exists(FS, DprPath)>>]
    /\ summary = [warnings |-> <<>>]
    /\ hist = [last |-> [kind |-> "none"], expanded |-> <<>>]

\* the frame of the callback that runs
TopFrame == loc.frames[Len(loc.frames)]

\* the canonical paths of the files that are being read: the .dpr and the
\* includes whose callbacks have not returned
ActiveChain == [k \in 1..Len(loc.frames) |-> canonicalize_if_exists(FS, loc.frames[k].path)]

\* with_include_bytes for the next directive of the running callback, up to
\* its return (None) or to the call of its callback
StackInclude ==
    /\ pc = "parse" /\ TopFrame.todo # <<>>
    /\ Bind(with_include_bytes(FS, Head(TopFrame.todo), TopFrame.path, summary.warnings,
                               loc.include_stack), LAMBDA w :
          /\ summary' = [warnings |-> w.warnings]
          /\ loc' = [frames |->
                        IF IsSome(w.call)
                        THEN Append([loc.frames EXCEPT ![Len(loc.frames)].todo = Tail(@)],
                                    StackFrame(Unwrap(w.call).include_path,
                                               Unwrap(w.call).bytes, loc.include_stack))
                        ELSE [loc.frames EXCEPT ![Len(loc.frames)].todo = Tail(@)],
                     include_stack |-> w.include_stack]
          /\ hist' = [last |-> [kind |-> IF IsSome(w.call) THEN "call"
                                         ELSE IF w.warnings[Len(w.warnings)][1]
                                                   = "include cycle detected"
                                         THEN "cycle" ELSE "unread",
                                canonical |-> canonicalize_if_exists(FS,
                                    resolve_include_path(TopFrame.path, Head(TopFrame.todo))),
                                chain |-> ActiveChain,
                                found |-> loc.include_stack,
                                left |-> w.include_stack],
                      expanded |-> IF IsSome(w.call)
                                   THEN Append(hist.expanded,
                                               canonicalize_if_exists(FS,
                                                   Unwrap(w.call).include_path))
                                   ELSE hist.expanded])
    /\ UNCHANGED <<files, disk, unit_cache, delphi_unit_cache, args, pc>>

\* the callback returns: include_stack.pop() and Some(result)
StackReturn ==
    /\ pc = "parse" /\ TopFrame.todo = <<>> /\ Len(loc.frames) > 1
    /\ loc' = [frames |-> SubSeq(loc.frames, 1, Len(loc.frames) - 1),
               include_stack |-> IncludePop(loc.include_stack)]
    /\ hist' = [hist EXCEPT !.last = [kind |-> "return",
                                      canonical |-> canonicalize_if_exists(FS, TopFrame.path),
                                      chain |-> ActiveChain,
                                      found |-> TopFrame.found,
                                      left |-> IncludePop(loc.include_stack)]]
    /\ UNCHANGED <<files, disk, unit_cache, delphi_unit_cache, args, pc, summary>>

\* the directives of the .dpr are handled
StackDone ==
    /\ pc = "parse" /\ TopFrame.todo = <<>> /\ Len(loc.frames) = 1
    /\ pc' = "parsed"
    /\ UNCHANGED <<files, disk, unit_cache, delphi_unit_cache, args, loc, summary, hist>>

NextStack == StackInclude \/ StackReturn \/ StackDone

SpecStack == InitStack /\ [][NextStack]_vars

(***************************************************************************)
(* Properties of the include stack (SpecStack)                             *)
(***************************************************************************)
\* C26: with_include_bytes leaves the include stack as it found it on each
\* of its return paths; while a callback runs the stack holds the canonical
\* paths of the files that are being read, none of them twice; and an
\* include is refused with the cycle warning exactly when its canonical
\* path is among the files that are being read
C26_StackDiscipline ==
    /\ hist.last.kind \in {"cycle", "unread", "return"} => hist.last.left = hist.last.found
    /\ loc.include_stack = ActiveChain
    /\ NoRepeat(loc.include_stack)
    /\ hist.last.kind \in {"cycle", "unread", "call"} =>
          (hist.last.kind = "cycle" <=> hist.last.canonical \in Range(hist.last.chain))

\* z.inc was included twice, by x.inc and by y.inc, and no include was
\* refused as a cycle
C26_Witness ==
    /\ pc = "parsed"
    /\ Len(SelectSeq(hist.expanded, LAMBDA q : q = Inc3Path)) = 2
    /\ CycleWarnings(summary.warnings) = <<>>

\* an include was refused that names, by way of the parent directory, a
\* file that is being read
C26_WitnessCycle ==
    /\ hist.last.kind = "cycle"
    /\ hist.last.canonical = IncPath
    /\ Len(loc.frames) > 2
    /\ Head(CycleWarnings(summary.warnings))[2] # IncPath

(***************************************************************************)
(* SpecCacheSeq: build_unit_cache followed by calls of get_or_load, over   *)
(* paths that name one file in two spellings and files that declare one    *)
(* name                                                                    *)
(***************************************************************************)
\* r\..\r\A.pas: the file of PathA
DotsPathA == RootDir \o << DotDot >> \o PathA

SeqScanLists == { <<PathA, PathB>>, <<PathA, DotsPathA, PathB, PathB2>>,
                  <<PathB, PathB2, PathVB, PathB>>, <<PathVB, DotsPathA>>, <<>> }

\* the paths get_or_load is called with
SeqLoadPaths == { PathA, DotsPathA, PathB, PathB2, PathVB, PathO }

\* the number of calls of get_or_load
MaxCalls == 2

InitCacheSeq ==
    /\ files = <<>>
    /\ \E unreadable \in SUBSET {PathB2} :
          disk = Corpus({PathA, PathB, PathB2, PathVB}, {}, unreadable)
    /\ unit_cache = EmptyCache
    /\ delphi_unit_cache = None
    /\ \E paths \in SeqScanLists : args = [paths |-> paths]
    /\ pc = "ready"
    /\ loc = [calls |-> 0]
    /\ summary = <<>>
    /\ hist = <<>>

\* build_unit_cache(paths, warnings)
SeqBuild ==
    /\ pc = "ready"
    /\ Bind(build_unit_cache(FS, args.paths), LAMBDA r :
          /\ unit_cache' = r.cache
          /\ pc' = IF r.err THEN "failed" ELSE "cached")
    /\ UNCHANGED <<files, disk, delphi_unit_cache, args, loc, summary, hist>>

\* get_or_load(cache, path, warnings)
SeqGetOrLoad ==
    /\ pc = "cached" /\ loc.calls < MaxCalls
    /\ \E path \in SeqLoadPaths :
          Bind(get_or_load(FS, unit_cache, path), LAMBDA r :
              /\ unit_cache' = r.cache
              /\ loc' = [calls |-> loc.calls + 1, path |-> path, before |-> unit_cache,
                         err |-> r.err, info |-> r.info])
    /\ UNCHANGED <<files, disk, delphi_unit_cache, args, pc, summary, hist>>

NextCacheSeq == SeqBuild \/ SeqGetOrLoad

SpecCacheSeq == InitCacheSeq /\ [][NextCacheSeq]_vars

(***************************************************************************)
(* Properties of the unit cache (SpecCacheSeq)                             *)
(***************************************************************************)
\* the places <<key, k>> of the buckets that hold the path
PlacesOf(cache, path) ==
    { pl \in UNION { { <<key, k>> : k \in 1..Len(cache.by_name[key]) } :
                     key \in DOMAIN cache.by_name } :
        cache.by_name[pl[1]][pl[2]] = path }

\* the paths of the cache that are those of files declaring the name key
DeclaringPaths(cache, key) ==
    { q \in DOMAIN cache.by_path : to_ascii_lowercase(cache.by_path[q].name) = key }

\* C27: after build_unit_cache and any calls of get_or_load, every path of
\* a by_name bucket is a key of by_path; every key of by_path stands at
\* exactly one place of the buckets, in the bucket of the lowercased name of
\* its record; a bucket holds more than one path exactly when two distinct
\* canonical paths declare its name; and get_or_load of a cached path
\* returns the cached record and changes nothing
C27_CacheInvariant ==
    /\ \A key \in DOMAIN unit_cache.by_name :
          /\ Range(unit_cache.by_name[key]) \subseteq DOMAIN unit_cache.by_path
          /\ Len(unit_cache.by_name[key]) > 1
                <=> \E q1, q2 \in DeclaringPaths(unit_cache, key) :
                       /\ q1 # q2
                       /\ Normalize(q1, <<>>) = q1 /\ Normalize(q2, <<>>) = q2
    /\ \A q \in DOMAIN unit_cache.by_path :
          /\ to_ascii_lowercase(unit_cache.by_path[q].name) \in DOMAIN unit_cache.by_name
          /\ \A pl \in PlacesOf(unit_cache, q) :
                pl[1] = to_ascii_lowercase(unit_cache.by_path[q].name)
          /\ Cardinality(PlacesOf(unit_cache, q)) = 1
    /\ (loc.calls > 0 /\ Normalize(loc.path, <<>>) \in DOMAIN loc.before.by_path) =>
          /\ unit_cache = loc.before
          /\ ~loc.err
          /\ loc.info = Some(loc.before.by_path[Normalize(loc.path, <<>>)])

\* get_or_load was called with the other spelling of a cached path, after
\* a call that loaded a second file of a name
C27_Witness ==
    /\ loc.calls = 2 /\ loc.path = DotsPathA
    /\ PathA \in DOMAIN loc.before.by_path
    /\ \E key \in DOMAIN unit_cache.by_name : Len(unit_cache.by_name[key]) > 1
    /\ Cardinality(DOMAIN loc.before.by_path) > Len(args.paths)

\* the scan named one file in two spellings and the cache holds it once
C27_WitnessScan ==
    /\ pc = "cached" /\ DotsPathA \in Range(args.paths)
    /\ unit_cache.by_name[<<"a">>] = <<PathA>>

(***************************************************************************)
(* SpecComments: parse_dpr_uses and parse_unit_uses over uses clauses that *)
(* hold comments, string literals and conditional directives between and   *)
(* beside their entries                                                    *)
(***************************************************************************)
\* the names of the entries of a generated clause
CommentEntryNames == { <<"F", "o", "o">>, <<"Q", "u", "x">>, <<"R">> }

\* comments, string literals and directives that hold identifiers, commas
\* and semicolons
CommentNoise ==
    { <<"{", "B", "a", "r", "}">>,
      <<"(", "*", "B", "a", "z", ",", " ", "{", "*", ")">>,
      <<"/", "/", " ", "Q", "u", "u", "x", ";", "\n">>,
      <<"'", "N", "o", "t", "A", "U", "n", "i", "t", "'">>,
      <<"'", "i", "t", "'", "'", "s", ",", "B", "a", "r", "'">>,
      <<"{", "u", "s", "e", "s", " ", "i", "t", "'", "s", ";", "}">>,
      <<"{", "$", "I", "F", "D", "E", "F", " ", "X", "}">>,
      <<"{", "$", "E", "N", "D", "I", "F", "}">> }

\* what stands between two commas of a generated clause: an entry, a piece
\* of noise, or both; [text, names]
CommentItems ==
    { [text |-> e, names |-> <<e>>] : e \in CommentEntryNames }
    \cup { [text |-> n, names |-> <<>>] : n \in CommentNoise }
    \cup { [text |-> n \o <<" ">> \o <<"Q", "u", "x">>, names |-> << <<"Q", "u", "x">> >>] :
             n \in CommentNoise }
    \cup { [text |-> <<"F", "o", "o">> \o <<" ">> \o n, names |-> << <<"F", "o", "o">> >>] :
             n \in CommentNoise }

\* the number of items of a generated clause
MaxCommentItems == 2

CommentLists == UNION { [1..n -> CommentItems] : n \in 1..MaxCommentItems }

RECURSIVE JoinItems(_)
JoinItems(items) ==
    IF Len(items) = 1 THEN items[1].text
    ELSE items[1].text \o <<",", " ">> \o JoinItems(Tail(items))

RECURSIVE ItemNames(_)
ItemNames(items) ==
    IF items = <<>> THEN <<>> ELSE Head(items).names \o ItemNames(Tail(items))

\* program P; uses <items>; end.
CommentDprText(items) ==
    <<"p", "r", "o", "g", "r", "a", "m", " ", "P", ";", "\n">>
    \o kwUses \o <<" ">> \o JoinItems(items) \o <<";", "\n", "e", "n", "d", ".">>

\* unit U; interface uses <items>; implementation end.
CommentUnitText(items) ==
    UnitHead \o kwInterface \o kwUses \o <<" ">> \o JoinItems(items) \o <<";">>
    \o kwImplementation \o UnitEnd

InitComments ==
    /\ \E items \in CommentLists :
          /\ args = [items |-> items]
          /\ files = (DprPath :> CommentDprText(items)) @@ (UnitUPath :> CommentUnitText(items))
    /\ disk = <<>>
    /\ unit_cache = EmptyCache
    /\ delphi_unit_cache = None
    /\ pc = "ready"
    /\ loc = [names |-> <<>>]
    /\ summary = [warnings |-> <<>>]
    /\ hist = <<>>

\* parse_dpr_uses on the .dpr
CommentsParseDpr ==
    /\ pc = "ready"
    /\ Bind(parse_dpr_uses(FS, DprPath, files[DprPath], <<>>), LAMBDA p :
          /\ loc' = [names |-> IF IsSome(p.list)
                               THEN [k \in 1..Len(Unwrap(p.list).entries) |->
                                        Unwrap(p.list).entries[k].name]
                               ELSE <<>>]
          /\ summary' = [warnings |-> p.warnings])
    /\ pc' = "dpr_parsed"
    /\ UNCHANGED <<files, disk, unit_cache, delphi_unit_cache, args, hist>>

\* parse_unit_uses on the unit
CommentsParseUnit ==
    /\ pc = "ready"
    /\ Bind(parse_unit_uses(FS, UnitUPath, files[UnitUPath], <<>>), LAMBDA p :
          /\ loc' = [names |-> p.deps]
          /\ summary' = [warnings |-> p.warnings])
    /\ pc' = "unit_parsed"
    /\ UNCHANGED <<files, disk, unit_cache, delphi_unit_cache, args, hist>>

NextComments == CommentsParseDpr \/ CommentsParseUnit

SpecComments == InitComments /\ [][NextComments]_vars

(***************************************************************************)
(* Properties of the parsers over comments and strings (SpecComments)      *)
(***************************************************************************)
\* C28: the entries that the parse of a uses clause of a .dpr or of a unit
\* returns are the entries written in the clause, in source order: no
\* identifier of a brace, paren or line comment or of a string literal is
\* among them, and an entry written behind a conditional directive is
\* returned like any other
C28_OnlyWrittenEntries ==
    pc \in {"dpr_parsed", "unit_parsed"} => loc.names = ItemNames(args.items)

\* the .dpr clause "{$IFDEF X} Qux, {$ENDIF} Qux" is parsed: both entries
\* are returned
C28_Witness ==
    /\ pc = "dpr_parsed"
    /\ Len(args.items) = 2
    /\ args.items[1].text = <<"{", "$", "I", "F", "D", "E", "F", " ", "X", "}", " ", "Q", "u", "x">>
    /\ args.items[2].text = <<"{", "$", "E", "N", "D", "I", "F", "}", " ", "Q", "u", "x">>
    /\ Len(loc.names) = 2

\* the unit clause "Foo // Quux;<newline>, 'NotAUnit'" is parsed: Foo alone
\* is returned
C28_WitnessUnit ==
    /\ pc = "unit_parsed"
    /\ Len(args.items) = 2
    /\ args.items[1].text = <<"F", "o", "o", " ", "/", "/", " ", "Q", "u", "u", "x", ";", "\n">>
    /\ args.items[2].text = <<"'", "N", "o", "t", "A", "U", "n", "i", "t", "'">>
    /\ loc.names = << <<"F", "o", "o">> >>

(***************************************************************************)
(* SpecLex: the four skip functions of pas_lex.rs applied at any offset of *)
(* a buffer, and the scanning loops of parse_dpr_uses, parse_unit_name and *)
(* parse_unit_uses, one iteration per step, over buffers of unbalanced     *)
(* comment and string delimiters.  hist counts the iterations of the loop. *)
(***************************************************************************)
\* unit_cache.rs parse_unit_name_after: Some(name) or None
parse_unit_name_after(bytes, i0) ==
    Bind(skip_ws_and_comments(bytes, i0), LAMBDA i :
        IF i >= Len(bytes) \/ ~is_ident_start(At(bytes, i)) THEN None
        ELSE Bind(read_ident_with_dots(bytes, i), LAMBDA tok :
                IF tok[1] = <<>> THEN None ELSE Some(tok[1])))

\* unit_cache.rs parse_unit_name: Some(name) or None
RECURSIVE parse_unit_name_from(_, _)
parse_unit_name_from(bytes, i) ==
    IF i < Len(bytes)
    THEN CASE At(bytes, i) = "{" -> parse_unit_name_from(bytes, skip_brace_comment(bytes, i + 1))
           [] At(bytes, i) = "(" /\ i + 1 < Len(bytes) /\ At(bytes, i + 1) = "*" ->
                parse_unit_name_from(bytes, skip_paren_comment(bytes, i + 2))
           [] At(bytes, i) = "/" /\ i + 1 < Len(bytes) /\ At(bytes, i + 1) = "/" ->
                parse_unit_name_from(bytes, skip_line_comment(bytes, i + 2))
           [] At(bytes, i) = "'" -> parse_unit_name_from(bytes, skip_string(bytes, i + 1))
           [] is_ident_start(At(bytes, i)) ->
                Bind(read_ident(bytes, i), LAMBDA tok :
                    IF eq_ignore_ascii_case(tok[1], <<"u", "n", "i", "t">>)
                       /\ IsSome(parse_unit_name_after(bytes, tok[2]))
                    THEN parse_unit_name_after(bytes, tok[2])
                    ELSE parse_unit_name_from(bytes, tok[2]))
           [] OTHER -> parse_unit_name_from(bytes, i + 1)
    ELSE None

parse_unit_name(bytes) == parse_unit_name_from(bytes, 0)

\* the pieces a buffer of SpecLex is put together from
LexTokens ==
    { <<"{">>, <<"}">>, <<"(", "*">>, <<"*", ")">>, <<"/", "/">>, <<"\n">>,
      <<"'">>,
      <<"u", "s", "e", "s", " ">>, <<"u", "n", "i", "t", " ">>,
      <<"i", "n", "t", "e", "r", "f", "a", "c", "e", " ">> }

\* the number of pieces of a buffer
MaxLexTokens == 2

LexBuffers == { Flatten(t) : t \in UNION { [1..n -> LexTokens] : n \in 0..MaxLexTokens } }

LexParsers == {"parse_dpr_uses", "parse_unit_name", "parse_unit_uses"}

LexSkips == {"skip_brace_comment", "skip_paren_comment", "skip_line_comment", "skip_string"}

\* the offset that the skip function fn returns for the start offset
LexSkipOf(fn, bytes, start) ==
    CASE fn = "skip_brace_comment" -> skip_brace_comment(bytes, start)
      [] fn = "skip_paren_comment" -> skip_paren_comment(bytes, start)
      [] fn = "skip_line_comment" -> skip_line_comment(bytes, start)
      [] fn = "skip_string" -> skip_string(bytes, start)

LexCall(fn, bytes, start) == [fn |-> fn, start |-> start, ret |-> LexSkipOf(fn, bytes, start)]

InitLex ==
    /\ files = <<>>
    /\ disk = <<>>
    /\ unit_cache = EmptyCache
    /\ delphi_unit_cache = None
    /\ args = <<>>
    /\ pc = "read"
    /\ loc = <<>>
    /\ summary = <<>>
    /\ hist = <<>>

\* the bytes of a file are read and handed to a parser
LexRead ==
    /\ pc = "read"
    /\ \E bytes \in LexBuffers, parser \in LexParsers :
          args' = [bytes |-> bytes, parser |-> parser]
    /\ pc' = "scan"
    /\ loc' = [i |-> 0, section |-> "None", deps |-> <<>>, call |-> None, result |-> None]
    /\ hist' = 0
    /\ UNCHANGED <<files, disk, unit_cache, delphi_unit_cache, summary>>

\* a skip function is called with a start offset of the buffer
LexSkip ==
    /\ pc = "scan" /\ loc.i = 0 /\ args.parser = "parse_dpr_uses"
    /\ \E fn \in LexSkips, start \in 0..Len(args.bytes) :
          loc' = [loc EXCEPT !.call = Some(LexCall(fn, args.bytes, start))]
    /\ pc' = "skipped"
    /\ UNCHANGED <<files, disk, unit_cache, delphi_unit_cache, args, summary, hist>>

\* the arm of the match of the scanning loops that calls a skip function at
\* offset i, if one does: an Option
LexArm(bytes, i) ==
    CASE At(bytes, i) = "{" -> Some(LexCall("skip_brace_comment", bytes, i + 1))
      [] At(bytes, i) = "(" /\ i + 1 < Len(bytes) /\ At(bytes, i + 1) = "*" ->
            Some(LexCall("skip_paren_comment", bytes, i + 2))
      [] At(bytes, i) = "/" /\ i + 1 < Len(bytes) /\ At(bytes, i + 1) = "/" ->
            Some(LexCall("skip_line_comment", bytes, i + 2))
      [] At(bytes, i) = "'" -> Some(LexCall("skip_string", bytes, i + 1))
      [] OTHER -> None

\* the identifier arm of the loop of the parser at offset i: [ret, l], where
\* ret says that the function returns and l holds the variables of the loop
LexIdent(parser, bytes, l, tok) ==
    CASE parser = "parse_dpr_uses" ->
            IF eq_ignore_ascii_case(tok[1], <<"u", "s", "e", "s">>)
            THEN [ret |-> TRUE,
                  l |-> [l EXCEPT !.result = Some(parse_dpr_uses_list(FS, DprPath, bytes, tok[2],
                                                                     <<>>).list)]]
            ELSE [ret |-> FALSE, l |-> [l EXCEPT !.i = tok[2]]]
      [] parser = "parse_unit_name" ->
            IF eq_ignore_ascii_case(tok[1], <<"u", "n", "i", "t">>)
               /\ IsSome(parse_unit_name_after(bytes, tok[2]))
            THEN [ret |-> TRUE,
                  l |-> [l EXCEPT !.result = Some(parse_unit_name_after(bytes, tok[2]))]]
            ELSE [ret |-> FALSE, l |-> [l EXCEPT !.i = tok[2]]]
      [] parser = "parse_unit_uses" ->
            IF eq_ignore_ascii_case(tok[1], <<"i", "n", "t", "e", "r", "f", "a", "c", "e">>)
            THEN [ret |-> FALSE, l |-> [l EXCEPT !.i = tok[2], !.section = "Interface"]]
            ELSE IF eq_ignore_ascii_case(tok[1],
                       <<"i", "m", "p", "l", "e", "m", "e", "n", "t", "a", "t", "i", "o", "n">>)
            THEN [ret |-> FALSE, l |-> [l EXCEPT !.i = tok[2], !.section = "Implementation"]]
            ELSE IF eq_ignore_ascii_case(tok[1], <<"u", "s", "e", "s">>) /\ l.section # "None"
            THEN Bind(parse_uses_fragment_with_includes(FS, bytes, tok[2], UnitUPath, <<>>,
                          l.deps, <<canonicalize_if_exists(FS, UnitUPath)>>), LAMBDA p :
                    [ret |-> FALSE, l |-> [l EXCEPT !.i = p.i, !.deps = p.deps]])
            ELSE [ret |-> FALSE, l |-> [l EXCEPT !.i = tok[2]]]

\* one iteration of the scanning loop of the parser
LexScan ==
    /\ pc = "scan" /\ loc.i < Len(args.bytes)
    /\ Bind(LexArm(args.bytes, loc.i), LAMBDA call :
          IF IsSome(call)
          THEN /\ loc' = [loc EXCEPT !.i = Unwrap(call).ret, !.call = call]
               /\ pc' = pc
          ELSE IF is_ident_start(At(args.bytes, loc.i))
          THEN Bind(LexIdent(args.parser, args.bytes, [loc EXCEPT !.call = None],
                             read_ident(args.bytes, loc.i)), LAMBDA r :
                  /\ loc' = r.l
                  /\ pc' = IF r.ret THEN "returned" ELSE pc)
          ELSE /\ loc' = [loc EXCEPT !.i = @ + 1, !.call = None]
               /\ pc' = pc)
    /\ hist' = hist + 1
    /\ UNCHANGED <<files, disk, unit_cache, delphi_unit_cache, args, summary>>

\* the loop has reached the end of the buffer
LexReturn ==
    /\ pc = "scan" /\ loc.i >= Len(args.bytes)
    /\ pc' = "returned"
    /\ loc' = [loc EXCEPT !.result = Some(None)]
    /\ UNCHANGED <<files, disk, unit_cache, delphi_unit_cache, args, summary, hist>>

NextLex == LexRead \/ LexSkip \/ LexScan \/ LexReturn

SpecLex == InitLex /\ [][NextLex]_vars

(***************************************************************************)
(* Properties of the scanner (SpecLex)                                     *)
(***************************************************************************)
\* the offset behind the run of quotes that begins at offset k
RECURSIVE QuoteRunEnd(_, _)
QuoteRunEnd(bytes, k) ==
    IF k < Len(bytes) /\ At(bytes, k) = "'" THEN QuoteRunEnd(bytes, k + 1) ELSE k

\* the offset behind the quote that ends the literal scanned from start: the
\* end of the first run of quotes of odd length; the length of the buffer
\* when every run is of even length
RECURSIVE LiteralEnd(_, _)
LiteralEnd(bytes, start) ==
    IF start >= Len(bytes) THEN Len(bytes)
    ELSE IF At(bytes, start) # "'" THEN LiteralEnd(bytes, start + 1)
    ELSE IF (QuoteRunEnd(bytes, start) - start) % 2 = 1 THEN QuoteRunEnd(bytes, start)
    ELSE LiteralEnd(bytes, QuoteRunEnd(bytes, start))

\* the construct that the call scans has no end in the buffer
Unterminated(call, bytes) ==
    CASE call.fn = "skip_brace_comment" ->
            \A k \in call.start..(Len(bytes) - 1) : At(bytes, k) # "}"
      [] call.fn = "skip_paren_comment" ->
            \A k \in call.start..(Len(bytes) - 2) :
                ~(At(bytes, k) = "*" /\ At(bytes, k + 1) = ")")
      [] call.fn = "skip_line_comment" ->
            \A k \in call.start..(Len(bytes) - 1) : At(bytes, k) # "\n"
      [] call.fn = "skip_string" ->
            \A k \in call.start..(Len(bytes) - 1) :
                At(bytes, k) = "'" => (QuoteRunEnd(bytes, k) - k) % 2 = 0
                                      \/ (k > call.start /\ At(bytes, k - 1) = "'")

\* the call returned an offset between its start and the end of the buffer,
\* the end of the buffer when the construct has no end, and for a string
\* the offset behind the first quote that is not doubled
ToleratedCall(call, bytes) ==
    /\ call.start <= call.ret /\ call.ret <= Len(bytes)
    /\ Unterminated(call, bytes) => call.ret = Len(bytes)
    /\ call.fn = "skip_string" => call.ret = LiteralEnd(bytes, call.start)

\* an iteration of a scanning loop ends the function or moves the offset
\* forward, not beyond the end of the buffer
LexProgress ==
    pc = "scan" => \/ pc' \in {"returned", "skipped"}
                   \/ loc'.i > loc.i /\ loc'.i <= Len(args.bytes)

\* C29: each skip function, called with a start offset not beyond the
\* length of the buffer, returns an offset between the start and the length
\* of the buffer, the length itself when the construct is unterminated;
\* skip_string passes over doubled quotes; and the scanning loops of
\* parse_dpr_uses, parse_unit_name and parse_unit_uses end: each iteration
\* moves the offset forward, not beyond the end of the buffer, or returns,
\* and a loop makes no more iterations than the buffer has bytes
C29_ScannerTolerance ==
    /\ [](pc # "read" /\ IsSome(loc.call) => ToleratedCall(Unwrap(loc.call), args.bytes))
    /\ [][LexProgress]_vars
    /\ [](pc \in {"scan", "returned"} => hist <= Len(args.bytes))

\* the loops return what the parsers return
LexAgrees ==
    pc = "returned" =>
        CASE args.parser = "parse_dpr_uses" ->
                Unwrap(loc.result) = parse_dpr_uses(FS, DprPath, args.bytes, <<>>).list
          [] args.parser = "parse_unit_name" ->
                Unwrap(loc.result) = parse_unit_name(args.bytes)
          [] args.parser = "parse_unit_uses" ->
                loc.deps = parse_unit_uses(FS, UnitUPath, args.bytes, <<>>).deps

\* skip_string was called on a literal that holds a doubled quote and has
\* no end: it returned the length of the buffer
C29_Witness ==
    /\ pc = "skipped"
    /\ Unwrap(loc.call).fn = "skip_string" /\ Unwrap(loc.call).start = 0
    /\ args.bytes = <<"'", "'">>
    /\ Unwrap(loc.call).ret = 2

\* parse_unit_uses has returned from a buffer whose paren comment has no end
C29_WitnessLoop ==
    /\ pc = "returned" /\ args.parser = "parse_unit_uses"
    /\ IsSome(loc.call) /\ Unwrap(loc.call).fn = "skip_paren_comment"
    /\ Unterminated(Unwrap(loc.call), args.bytes)

(***************************************************************************)
(* The summary of update_dpr_files (Spec, runs of add-dependency)          *)
(***************************************************************************)
\* the iterations of 'dpr_loop that have begun
StartedDprs == IF pc \in {"dpr_loop", "done"} THEN loc.idx - 1 ELSE loc.idx

\* the insertions that the run has written into the .dpr
WrittenInto(dpr) == { k \in 1..Len(hist.inserted) : hist.inserted[k].dpr = dpr }

\* the beginning of the entry that insert_new_unit writes for the unit:
\* format!("{} in '{}'", ..)
WrittenBytes(name) == name \o <<" ", "i", "n", " ", "'">>

\* the .dpr exists and holds the bytes of every insertion written into it
Retained(dpr) ==
    /\ dpr \in DOMAIN files
    /\ \A k \in WrittenInto(dpr) : Occurs(WrittenBytes(hist.inserted[k].name), files[dpr])

\* the .dpr files with a written insertion that the run did not count as
\* updated: a later step of the same iteration failed
WrittenThenFailed ==
    { dpr \in Range(args.dpr_paths) :
        /\ WrittenInto(dpr) # {}
        /\ \A k \in 1..Len(summary.updated_paths) : summary.updated_paths[k] # dpr }

\* the counters of the summary in every state of a run: scanned counts the
\* iterations begun, updated is the length of updated_paths, no iteration is
\* counted both as updated and as a failure, and a path is listed in
\* updated_paths only after an insertion was written into it
SummaryCounts ==
    args.mode = "add" =>
        /\ summary.scanned = StartedDprs
        /\ summary.updated = Len(summary.updated_paths)
        /\ summary.updated + summary.failures <= summary.scanned
        /\ \A k \in 1..Len(summary.updated_paths) :
              WrittenInto(summary.updated_paths[k]) # {}

\* a .dpr that still exists holds every insertion written into it
RetainedWhileExists ==
    args.mode = "add" =>
        \A dpr \in Range(args.dpr_paths) : dpr \in DOMAIN files => Retained(dpr)

\* C30: when update_dpr_files returns a summary, scanned is the number of
\* .dpr files it began to process, updated is the length of updated_paths,
\* updated + failures <= scanned, a path is in updated_paths only if an
\* insertion was written into that file, and the bytes written into a file
\* before a later step on the same file failed are still in the file
C30_SummaryAccounting ==
    (args.mode = "add" /\ pc = "done") =>
        /\ summary.scanned = Len(args.dpr_paths)
        /\ summary.updated = Len(summary.updated_paths)
        /\ summary.updated + summary.failures <= summary.scanned
        /\ \A k \in 1..Len(summary.updated_paths) :
              WrittenInto(summary.updated_paths[k]) # {}
        /\ \A dpr \in WrittenThenFailed : Retained(dpr)

\* a summary is returned after an insertion was written into a .dpr and a
\* later write_atomic on the same .dpr removed the file and failed
C30_Witness ==
    /\ args.mode = "add" /\ pc = "done" /\ summary.failures > 0
    /\ \E dpr \in WrittenThenFailed : dpr \notin DOMAIN files

\* a summary is returned after an insertion was written into a .dpr and a
\* later step on the same .dpr failed, and the file holds the written bytes;
\* the .dpr is counted as a failure and is not listed in updated_paths
C30_WitnessRetained ==
    /\ args.mode = "add" /\ pc = "done" /\ summary.failures > 0
    /\ \E dpr \in WrittenThenFailed : Retained(dpr)
    /\ summary.updated + summary.failures <= summary.scanned

\* a summary that counts a .dpr as updated and another as a failure
C30_WitnessCounted ==
    /\ args.mode = "add" /\ pc = "done"
    /\ summary.updated > 0 /\ summary.failures > 0

====
